---- MODULE Spec2Model ----
(***************************************************************************)
(* Tiered conversational memory (memorizer): Memory tiers with batched     *)
(* eviction and persistence (memory.py), the Context cascade (context.py)  *)
(* and the orchestrator's background maintenance passes (model.py).        *)
(*                                                                         *)
(* Message objects live in a heap and tiers hold references to them, as in *)
(* the Python code, where an evicted Message object is the very object     *)
(* that is inserted into the next tier.                                    *)
(***************************************************************************)
EXTENDS Integers, Sequences, FiniteSets, Bags, TLC

\* ------------------------------------------------------------------ bounds
MaxCap == 3         \* largest capacity of the generic tier of SpecTier
MaxChunk == 2       \* largest drop_chunk_size of the generic tier
MaxBatch == 2       \* longest batch handed to one extend call
MaxMsgs == 4        \* Message objects created in one run of SpecTier
MaxCalls == 4       \* durable writes of one tier in one run
MaxCtxMsgs == 6     \* Message objects created in one run of SpecCtx
MaxAppends == 2     \* Model.append calls (and so maintenance passes) in one run of Spec
MaxLoaded == 3      \* messages that an earlier session left in the data directory
MaxLines == 3       \* lines of one streamed response
\* Capacities of the Context's tiers, scaled down from max_messages=10,
\* drop_chunk_size=2 (working) and max_messages=30, drop_chunk_size=10
\* (short-term) so that overflow reaches the episodic tier within the bounds.
WorkingMax == 2
WorkingChunk == 1
ShortMax == 1
ShortChunk == 1
TicksPerMinute == 2 \* clock readings within one minute, the resolution of a formatted timestamp
MaxTime == 3        \* last reading of the clock
MaxTierAppends == 3 \* Memory.append and Context.append calls in one run of SpecRender
MaxHeld == 3        \* Message objects that one run of SpecReload holds
MaxText == 4        \* characters that the contents of the tier of SpecVar hold together
MaxValue == 2       \* characters of a value given to set_var
MaxGoals == 2       \* goal rebuilds in one run of the program in SpecGoal

\* ------------------------------------------------------- program constants
\* max_messages=None (no capacity) is modelled by a negative number.
Unbounded == -1
None == "None"

\* ------------------------------------------------------------------- state
VARIABLES
    heap,       \* Seq of Message objects; a message reference is an index
    cfg,        \* tier name -> policy fixed at construction (Memory.__init__)
    mem,        \* tier name -> [messages, uncompressed]: Memory._messages, Memory._uncompressed
    disk,       \* tier name -> the persisted file of the tier
    writes,     \* tier name -> number of _save_to_disk calls that replaced the file
    last,       \* record of the last Memory call: what went in and what came out
    layers,     \* Context.layers: the cascade chain, a sequence of tier names
    appended,   \* history: the messages appended through Context.append, in order
    pre,        \* history: mem as it was before the last Context.append
    mainPc,     \* where the interactive loop (chat.py, completion.py) stands
    passes,     \* bag of maintenance threads, each a record of its position and locals
    notes,      \* number of episodic summaries (memory-role Message objects) created so far
    fs,         \* the file of the working tier and its .tmp sibling, as the file system holds them
    saving,     \* the interactive loop's position and locals inside Context.append
    sc,         \* stream_completion: its position, its locals and what it returned
    clock,      \* the reading of the wall clock, datetime.now()
    rd          \* one tier with its files: rendering, persistence and reload

vars == <<heap, cfg, mem, disk, writes, last, layers, appended, pre, mainPc, passes, notes,
         fs, saving, sc, clock, rd>>

\* ---------------------------------------------------------------- Message
\* An optional timestamp is the empty tuple (None) or a one-element tuple.
Message(role, content) ==
    [role |-> role, content |-> content, compressed_content |-> None,
     timestamp |-> <<>>, formatted_timestamp |-> <<>>]

\* Memory._format_timestamp: "%Y-%m-%d %H:%M" of the parsed timestamp, which
\* keeps the minute and drops what is finer.
FormatTimestamp(timestamp) == <<timestamp[1] \div TicksPerMinute>>

\* Memory._apply, before validation: a message without a timestamp gets the
\* clock reading `now`, one without a formatted timestamp gets it computed.
\* A Message object is handed to _apply for the first time by the call that
\* created it, so the actions stamp a message where they create it.
Stamp(message, now) ==
    LET m == IF message.timestamp = <<>>
             THEN [message EXCEPT !.timestamp = <<now>>] ELSE message
    IN  IF m.formatted_timestamp = <<>> /\ m.timestamp # <<>>
        THEN [m EXCEPT !.formatted_timestamp = FormatTimestamp(m.timestamp)]
        ELSE m

\* The reading of the clock when the program starts. The clock advances in
\* SpecRender only; the other specifications follow runs that fit within
\* one reading.
Started == 1

\* The Message objects that the orchestrator creates itself (role "memory":
\* workspace note, episodic summary, factual block, goal) are never modified
\* after creation, so they are not stored in the heap: the reference of the
\* n-th object of a kind is a negative number that encodes kind and n. The
\* text the LLM returns is not modelled, so the successive workspace notes
\* (factual blocks, goals), each of which replaces the one before it, are one
\* object per kind; the episodic summaries, which accumulate, are numbered.
NoteKinds == <<"workspace", "epi", "fact", "goal">>
KindCode(kind) == CHOOSE i \in 1..Len(NoteKinds) : NoteKinds[i] = kind
NoteRef(kind, n) == 0 - (Len(NoteKinds) * n + KindCode(kind) - 1)
NoteKind(m) == NoteKinds[((0 - m) % Len(NoteKinds)) + 1]

\* The Message object behind a reference.
Obj(h, m) == IF m > 0 THEN h[m] ELSE Stamp(Message("memory", NoteKind(m)), Started)

\* --------------------------------------------------------- Memory (a tier)
MemoryInit(allowed_roles, max_messages, drop_chunk_size, is_long_term_memory) ==
    [allowed_roles |-> allowed_roles,
     max_messages |-> max_messages,
     drop_chunk_size |-> drop_chunk_size,
     is_long_term_memory |-> is_long_term_memory]

EmptyMemory == [messages |-> <<>>, uncompressed |-> <<>>]

NoFile == [exists |-> FALSE, data |-> <<>>]

Max(a, b) == IF a >= b THEN a ELSE b
Min(a, b) == IF a <= b THEN a ELSE b

Take(s, n) == SubSeq(s, 1, Min(n, Len(s)))
Drop(s, n) == SubSeq(s, Min(n, Len(s)) + 1, Len(s))

\* Memory._validate: TRUE when the message is accepted, FALSE when it raises.
Validate(c, h, m) ==
    /\ Obj(h, m).role \in c.allowed_roles
    /\ ~(c.max_messages # Unbounded /\ c.max_messages < 1)

\* Mutant of EvictLoop: drops one message per round instead of a chunk of
\* drop_chunk_size.
RECURSIVE EvictLoopOneByOne(_, _, _)
EvictLoopOneByOne(c, ms, dropped) ==
    IF ms # <<>> /\ Len(ms) >= c.max_messages
    THEN EvictLoopOneByOne(c, Drop(ms, 1), dropped \o Take(ms, 1))
    ELSE [messages |-> ms, dropped |-> dropped]

\* Mutant of EvictLoop: removes the chunk but reports only its first message.
RECURSIVE EvictLoopForgets(_, _, _)
EvictLoopForgets(c, ms, dropped) ==
    IF ms # <<>> /\ Len(ms) >= c.max_messages
    THEN LET drop_size == Max(1, c.drop_chunk_size)
         IN  EvictLoopForgets(c, Drop(ms, drop_size), dropped \o Take(ms, 1))
    ELSE [messages |-> ms, dropped |-> dropped]

\* The while loop of Memory._apply: drop chunks from the front while the tier
\* is non-empty and holds max_messages or more.
RECURSIVE EvictLoop(_, _, _)
EvictLoop(c, ms, dropped) ==
    IF ms # <<>> /\ Len(ms) >= c.max_messages
    THEN LET drop_size == Max(1, c.drop_chunk_size)
         IN  EvictLoop(c, Drop(ms, drop_size), dropped \o Take(ms, drop_size))
    ELSE [messages |-> ms, dropped |-> dropped]

\* Mutant of Evict: evicts only once the tier holds more than max_messages.
EvictWhenOver(c, ms, dropped) ==
    IF c.max_messages # Unbounded /\ Len(ms) > c.max_messages
    THEN [messages |-> Drop(ms, Max(1, c.drop_chunk_size)),
          dropped |-> dropped \o Take(ms, Max(1, c.drop_chunk_size))]
    ELSE [messages |-> ms, dropped |-> dropped]

\* The eviction branch of Memory._apply for one message.
Evict(c, ms, dropped) ==
    IF c.max_messages # Unbounded /\ Len(ms) >= c.max_messages
    THEN EvictLoop(c, ms, dropped)
    ELSE [messages |-> ms, dropped |-> dropped]

\* Memory._apply over a batch of message references: validate, evict, append,
\* one message after the other; a validation error stops the loop where it is.
RECURSIVE Apply(_, _, _, _, _)
Apply(c, h, ms, batch, dropped) ==
    IF batch = <<>>
    THEN [messages |-> ms, dropped |-> dropped, raised |-> FALSE]
    ELSE IF ~Validate(c, h, Head(batch))
    THEN [messages |-> ms, dropped |-> dropped, raised |-> TRUE]
    ELSE LET ev == Evict(c, ms, dropped)
         IN  Apply(c, h, Append(ev.messages, Head(batch)), Tail(batch), ev.dropped)

\* Memory._serialize / _serialize_uncompressed: the stored fields of each message.
SerializeList(h, ms) ==
    [i \in 1..Len(ms) |->
        [role |-> Obj(h, ms[i]).role,
         content |-> Obj(h, ms[i]).content,
         compressed_content |-> Obj(h, ms[i]).compressed_content,
         timestamp |-> Obj(h, ms[i]).timestamp]]

Serialize(c, h, st) ==
    IF ~c.is_long_term_memory
    THEN [wrapped |-> FALSE, messages |-> SerializeList(h, st.messages), uncompressed |-> <<>>]
    ELSE [wrapped |-> TRUE, messages |-> SerializeList(h, st.messages),
          uncompressed |-> SerializeList(h, st.uncompressed)]

\* Memory._save_to_disk taken as one step: the file becomes the serialization.
SaveToDisk(c, h, st) == [exists |-> TRUE, data |-> Serialize(c, h, st)]

\* json.dumps(payload) of a tier that is not long-term, as the sequence of its
\* parts: one part per message item, then the closing bracket.
Text(data) == [i \in 1..Len(data.messages) |-> <<data.messages[i]>>] \o << <<>> >>

\* The file system around one tier file. An inode is a number (0: none) and
\* inodes[i] is the content of inode i; tmp and target are the inodes that the
\* names <path>.tmp and <path> refer to; saved is the history of the texts
\* that _save_to_disk calls set out to write.
NoFs == [tmp |-> 0, target |-> 0, inodes |-> <<>>, saved |-> {}]

\* The file system that holds the file d of a tier and no .tmp file.
FsOf(d) ==
    IF d.exists
    THEN [tmp |-> 0, target |-> 1, inodes |-> <<Text(d.data)>>, saved |-> {Text(d.data)}]
    ELSE NoFs

\* The interactive loop is not inside Context.append.
NoSave == [pc |-> "none", payload |-> <<>>, fd |-> 0, m |-> 0, dropped |-> <<>>,
           then |-> "none"]

\* stream_completion is not running. marks: the escape sequences printed so
\* far, "enter" for "\033[34m", "leave" for "\033[0m\n", "reset" for the
\* "\033[0m" after the loop.
NoStream == [pc |-> "idle", lines |-> <<>>, idx |-> 0, parts |-> <<>>,
             usage |-> None, reasoning |-> FALSE, marks |-> <<>>, result |-> None,
             error |-> None, appends |-> <<>>]

\* No tier under SpecRender.
NoRender == [pc |-> "none"]

\* ----------------------------------------------- SpecTier: one generic tier
TierRoles == {"user", "assistant"}
InputRoles == {"user", "assistant", "system"}

Batches == UNION {[1..n -> InputRoles] : n \in 0..MaxBatch}

NewMessages(batch) == [i \in 1..Len(batch) |-> Stamp(Message(batch[i], "short"), clock)]
NewRefs(h, batch) == [i \in 1..Len(batch) |-> Len(h) + i]

NoCall == [op |-> "none", tier |-> "none", before |-> <<>>, inserted |-> <<>>,
           dropped |-> <<>>, returned |-> <<>>, raised |-> FALSE, saved |-> FALSE]

InitTier ==
    /\ heap = <<>>
    /\ \E C \in {Unbounded} \cup (1..MaxCap), B \in 0..MaxChunk :
          cfg = [t \in {"tier"} |-> MemoryInit(TierRoles, C, B, FALSE)]
    /\ mem = [t \in {"tier"} |-> EmptyMemory]
    /\ disk = [t \in {"tier"} |-> NoFile]
    /\ writes = [t \in {"tier"} |-> 0]
    /\ last = NoCall
    /\ layers = <<>>
    /\ appended = <<>>
    /\ pre = mem
    /\ mainPc = "none"
    /\ passes = EmptyBag
    /\ notes = 0
    /\ fs = NoFs
    /\ saving = NoSave
    /\ sc = NoStream
    /\ clock = Started
    /\ rd = NoRender

\* Mutant of SavesPerCall: _save_to_disk inside the loop over the batch.
SavesPerMessage(batch) == Len(batch)

\* Memory.extend: self._save_to_disk() stands after self._apply(...), outside
\* its loop; the number of times it runs in a call that returns.
SavesPerCall(batch) == 1

\* Memory.extend(messages) on tier t of the state b = [mem, disk, writes]:
\* _apply, then _save_to_disk, then return dropped. When _apply raises, the
\* messages already applied stay, nothing is saved and the dropped list never
\* reaches the caller.
Extend(c, h, b, t, batch) ==
    LET r == Apply(c[t], h, b.mem[t].messages, batch, <<>>)
        st == [b.mem[t] EXCEPT !.messages = r.messages]
    IN  [mem |-> [b.mem EXCEPT ![t] = st],
         disk |-> IF r.raised THEN b.disk
                  ELSE [b.disk EXCEPT ![t] = SaveToDisk(c[t], h, st)],
         writes |-> IF r.raised THEN b.writes
                    ELSE [b.writes EXCEPT ![t] = @ + SavesPerCall(batch)],
         dropped |-> r.dropped,
         raised |-> r.raised]

Now == [mem |-> mem, disk |-> disk, writes |-> writes, dropped |-> <<>>, raised |-> FALSE]

ExtendCall(t, batch, op) ==
    /\ Len(heap) + Len(batch) <= MaxMsgs
    /\ writes[t] < MaxCalls
    /\ LET h == heap \o NewMessages(batch)
           refs == NewRefs(heap, batch)
           r == Extend(cfg, h, Now, t, refs)
       IN  /\ heap' = h
           /\ mem' = r.mem
           /\ disk' = r.disk
           /\ writes' = r.writes
           /\ last' = [op |-> op, tier |-> t,
                       before |-> mem[t].messages,
                       inserted |-> refs,
                       dropped |-> r.dropped,
                       returned |-> IF r.raised THEN <<>> ELSE r.dropped,
                       raised |-> r.raised,
                       saved |-> ~r.raised]
    /\ pre' = mem
    /\ UNCHANGED <<cfg, sc, clock, rd, fs, saving, layers, appended, mainPc, passes, notes>>

\* Memory.extend
TierExtend == \E batch \in Batches : ExtendCall("tier", batch, "extend")

\* Memory.append(role, content) == extend([Message(role, content)])
TierAppend == \E role \in InputRoles : ExtendCall("tier", <<role>>, "append")

NextTier == TierExtend \/ TierAppend

SpecTier == InitTier /\ [][NextTier]_vars

\* ---------------------------------------------------- claims on one tier
Completed == last.op \in {"append", "extend"} /\ ~last.raised

\* C1: a tier with capacity C >= 1 and eviction batch size B >= 1 holds at
\* most C messages after every completed append/extend call.
C1_CapacityNeverExceeded ==
    \A t \in DOMAIN mem :
        (cfg[t].max_messages >= 1 /\ cfg[t].drop_chunk_size >= 1)
            => Len(mem[t].messages) <= cfg[t].max_messages

\* C1 witness: a batch of two has just been inserted into a full tier, which
\* evicted and is full again.
C1_Witness ==
    /\ Completed /\ last.op = "extend" /\ Len(last.inserted) = 2
    /\ cfg["tier"].max_messages >= 2 /\ cfg["tier"].drop_chunk_size >= 1
    /\ Len(last.before) = cfg["tier"].max_messages
    /\ last.dropped # <<>>
    /\ Len(mem["tier"].messages) = cfg["tier"].max_messages

\* C2: every completed extend/append returns exactly what it removed, oldest
\* first: contents before ++ inserted = returned ++ contents after.
C2_EvictedIsWhatWasRemoved ==
    Completed =>
        last.before \o last.inserted = last.returned \o mem[last.tier].messages

\* C2 witness: one call that evicted a chunk of two and inserted two.
C2_Witness ==
    /\ Completed /\ Len(last.inserted) = 2 /\ Len(last.returned) >= 2
    /\ mem["tier"].messages # <<>>

\* C5 (as claimed): a call that fails with a role violation leaves the tier
\* as it was before the call, evicts nothing and writes nothing.
C5_RoleErrorLeavesTierUntouched ==
    (last.op \in {"append", "extend"} /\ last.raised) =>
        /\ mem[last.tier].messages = last.before
        /\ last.dropped = <<>>
        /\ ~last.saved

\* C8: an append to a tier holding fewer than C messages evicts nothing; an
\* append to a tier holding exactly C messages removes exactly the min(B, C)
\* oldest messages, then inserts.
C8_AppendEvictsOneChunkWhenFull ==
    (Completed /\ Len(last.inserted) = 1
        /\ cfg[last.tier].max_messages >= 1 /\ cfg[last.tier].drop_chunk_size >= 1) =>
        LET C == cfg[last.tier].max_messages
            B == cfg[last.tier].drop_chunk_size
            n == Min(B, C)
        IN  /\ Len(last.before) < C =>
                  /\ last.returned = <<>>
                  /\ mem[last.tier].messages = last.before \o last.inserted
            /\ Len(last.before) = C =>
                  /\ last.returned = Take(last.before, n)
                  /\ mem[last.tier].messages = Drop(last.before, n) \o last.inserted

\* C8 witness: capacity 3, batch size 1, m1..m4 appended: [m1] evicted,
\* [m2, m3, m4] left.
C8_Witness ==
    /\ Completed /\ last.op = "append"
    /\ cfg["tier"].max_messages = 3 /\ cfg["tier"].drop_chunk_size = 1
    /\ last.returned = <<1>>
    /\ mem["tier"].messages = <<2, 3, 4>>

\* ------------------------------------------------------------- Context
TierNames == {"system", "model_goal", "workspace", "long_term_episodic",
              "long_term_factual", "short_term", "recall", "working"}

user_assistant == {"user", "assistant"}
long_term_roles == {"system", "user", "assistant", "memory"}
goal_roles == {"memory"}

\* Context.create: the fixed policy of every tier.
ContextCreate ==
    [t \in TierNames |->
        CASE t = "system" -> MemoryInit({"system"}, 1, 1, FALSE)
          [] t = "model_goal" -> MemoryInit(goal_roles, 1, 1, FALSE)
          [] t = "workspace" -> MemoryInit(goal_roles, 1, 1, FALSE)
          [] t = "long_term_episodic" -> MemoryInit(long_term_roles, Unbounded, 1, TRUE)
          [] t = "long_term_factual" -> MemoryInit(long_term_roles, 1, 1, TRUE)
          [] t = "short_term" -> MemoryInit(user_assistant, ShortMax, ShortChunk, FALSE)
          [] t = "recall" -> MemoryInit(user_assistant, Unbounded, 1, FALSE)
          [] t = "working" -> MemoryInit(user_assistant, WorkingMax, WorkingChunk, FALSE)]

\* Mutant of CreateLayers: the short-term tier left out of the chain.
CreateLayersSkipShortTerm == <<"working", "long_term_episodic">>

\* Mutant of CreateLayers: the recall tier put between short-term and episodic.
CreateLayersViaRecall == <<"working", "short_term", "recall", "long_term_episodic">>

\* Context.create: ctx.layers = [ctx.working, ctx.short_term, ctx.long_term_episodic]
CreateLayers == <<"working", "short_term", "long_term_episodic">>

\* Mutant of Cascade: the loop forwards to the first following tier only.
CascadeOneHop(c, h, b, ls, dropped) ==
    IF ls = <<>> \/ dropped = <<>> THEN b ELSE Extend(c, h, b, Head(ls), dropped)

\* The loop of Context.append over self.layers[1:]: stop when nothing was
\* dropped, else extend the next tier with what the previous one dropped.
RECURSIVE Cascade(_, _, _, _, _)
Cascade(c, h, b, ls, dropped) ==
    IF ls = <<>> \/ dropped = <<>>
    THEN b
    ELSE LET r == Extend(c, h, b, Head(ls), dropped)
         IN  IF r.raised THEN r ELSE Cascade(c, h, r, Tail(ls), r.dropped)

\* Context.append(role, content) with m the new Message object.
ContextAppend(c, h, b, ls, m) ==
    LET r == Extend(c, h, b, "working", <<m>>)
    IN  IF r.raised THEN r ELSE Cascade(c, h, r, Tail(ls), r.dropped)

Contents == {"short", "long"}

\* Context.create(system_prompt=...) on an empty data directory: the system
\* tier is seeded with the prompt, every other tier is empty.
InitCtx ==
    /\ heap = <<Stamp(Message("system", "short"), Started)>>
    /\ cfg = ContextCreate
    /\ mem = [t \in TierNames |->
                IF t = "system" THEN [EmptyMemory EXCEPT !.messages = <<1>>]
                ELSE EmptyMemory]
    /\ disk = [t \in TierNames |->
                IF t = "system"
                THEN SaveToDisk(cfg[t], heap, mem[t])
                ELSE NoFile]
    /\ writes = [t \in TierNames |-> IF t = "system" THEN 1 ELSE 0]
    /\ last = NoCall
    /\ layers = CreateLayers
    /\ appended = <<>>
    /\ pre = mem
    /\ mainPc = "none"
    /\ passes = EmptyBag
    /\ notes = 0
    /\ fs = NoFs
    /\ saving = NoSave
    /\ sc = NoStream
    /\ clock = Started
    /\ rd = NoRender

\* Context.append(role, content)
CtxAppend ==
    \E role \in InputRoles, content \in Contents :
        /\ Len(heap) < MaxCtxMsgs
        /\ LET h == Append(heap, Stamp(Message(role, content), clock))
               m == Len(h)
               r == ContextAppend(cfg, h, Now, layers, m)
           IN  /\ heap' = h
               /\ mem' = r.mem
               /\ disk' = r.disk
               /\ writes' = r.writes
               /\ appended' = IF r.raised THEN appended ELSE Append(appended, m)
               /\ last' = [op |-> "ctx_append", tier |-> "working",
                           before |-> mem["working"].messages,
                           inserted |-> <<m>>,
                           dropped |-> <<>>, returned |-> <<>>,
                           raised |-> r.raised, saved |-> ~r.raised]
        /\ pre' = mem
        /\ UNCHANGED <<cfg, sc, clock, rd, fs, saving, layers, mainPc, passes, notes>>

NextCtx == CtxAppend

SpecCtx == InitCtx /\ [][NextCtx]_vars

\* -------------------------------------------------- claims on the cascade
CtxAppended == last.op = "ctx_append" /\ ~last.raised

RECURSIVE Incoming(_), Left(_)
Incoming(i) == IF i = 1 THEN last.inserted ELSE Left(i - 1)
Left(i) ==
    LET all == pre[layers[i]].messages \o Incoming(i)
    IN  Take(all, Len(all) - Len(mem[layers[i]].messages))

\* Every tier of the chain holds, after the call, what it held before followed
\* by what the previous tier evicted, minus what it evicted itself; the last
\* tier evicts nothing; the tiers outside the chain are untouched.
ForwardedDownTheChain ==
    /\ \A i \in 1..Len(layers) :
          /\ pre[layers[i]].messages \o Incoming(i)
                = Left(i) \o mem[layers[i]].messages
          /\ i = Len(layers) => Left(i) = <<>>
    /\ \A t \in DOMAIN mem :
          (\A i \in 1..Len(layers) : layers[i] # t) => mem[t] = pre[t]

\* C7 (as claimed): the chain is working -> short-term -> long-term-episodic
\* -> recall, each tier's evicted batch is inserted into the next tier, and
\* recall is the last tier of the chain.
C7_ChainEndsInRecall ==
    /\ layers = <<"working", "short_term", "long_term_episodic", "recall">>
    /\ CtxAppended => ForwardedDownTheChain

\* C7 (amended): the chain is working -> short-term -> long-term-episodic,
\* each tier's evicted batch is inserted into the next tier of that chain, the
\* episodic tier is the last one and recall never receives a message.
C7_ChainEndsInEpisodic ==
    /\ layers = <<"working", "short_term", "long_term_episodic">>
    /\ mem["recall"].messages = <<>>
    /\ CtxAppended => ForwardedDownTheChain

\* C7 witness: one Context.append in which working evicted into short-term
\* and short-term evicted into the episodic tier.
C7_Witness ==
    /\ CtxAppended
    /\ Left(1) # <<>> /\ Left(2) # <<>>
    /\ Len(mem["long_term_episodic"].messages)
          > Len(pre["long_term_episodic"].messages)

\* ------------------------------------------------- Memory, further calls
\* Memory.save
Save(c, h, b, t) ==
    [b EXCEPT !.disk = [b.disk EXCEPT ![t] = SaveToDisk(c[t], h, b.mem[t])],
              !.writes = [b.writes EXCEPT ![t] = @ + 1]]

\* Memory.add_uncompressed: only a long-term tier keeps the shadow list.
AddUncompressed(c, h, b, t, ms) ==
    IF ~c[t].is_long_term_memory
    THEN b
    ELSE Save(c, h, [b EXCEPT !.mem = [b.mem EXCEPT ![t].uncompressed = @ \o ms]], t)

\* Memory.set_messages: clear, _apply, save (no save when _apply raises).
SetMessages(c, h, b, t, ms) ==
    LET r == Apply(c[t], h, <<>>, ms, <<>>)
        b2 == [b EXCEPT !.mem = [b.mem EXCEPT ![t].messages = r.messages]]
    IN  IF r.raised THEN [b2 EXCEPT !.raised = TRUE] ELSE Save(c, h, b2, t)

\* --------------------------------------------- Model: maintenance passes
Outputs == {"empty", "text"}

SelectSeq2(h, ms, keepMemory) ==
    SelectSeq(ms, LAMBDA m : (Obj(h, m).role = "memory") = keepMemory)

Event(step, ev) == [step |-> step, ev |-> ev]

\* Mutant of NextStep: goal rebuild and factual rebuild in the other order.
NextStepGoalFirst(step) ==
    CASE step = "wm" -> "epi"
      [] step = "epi" -> "goal"
      [] step = "goal" -> "fact"
      [] step = "fact" -> "done"

\* The order of the calls in _compress_pending_messages and
\* _compress_long_term_memory: the step that follows each step.
NextStep(step) ==
    CASE step = "wm" -> "epi"
      [] step = "epi" -> "fact"
      [] step = "fact" -> "goal"
      [] step = "goal" -> "done"

\* threading.Thread(target=self._compress_pending_messages): a thread that
\* has not run yet.
NewPass ==
    [pc |-> "start", step |-> "none", msgs |-> <<>>, idx |-> 0, changed |-> FALSE,
     lt |-> <<>>, to_compress |-> <<>>, trace |-> <<>>, payload |-> <<>>, fd |-> 0]

\* A thread that has ended: _compress_pending_messages has returned ("done"),
\* or an exception has ended it ("dead"). Its locals are gone.
Ended(pc) == [NewPass EXCEPT !.pc = pc]

\* The pass r has finished step `step`; control moves to the step after it in
\* the state (h, m). Entering episodic consolidation is the head of
\* _compress_long_term_memory: snapshot the episodic tier, return when it
\* holds no non-memory message, else build the prompt and call the LLM.
\* Entering the factual or the goal rebuild builds the prompt from
\* to_compress, which is not empty here, and calls the LLM; the model keeps
\* neither the prompt nor, from here on, the snapshot it was built from.
Continue(r, step, h, m) ==
    LET r1 == [r EXCEPT !.trace = Append(@, Event(step, "end")),
                        !.msgs = <<>>, !.idx = 0, !.changed = FALSE]
        nxt == NextStep(step)
    IN  CASE nxt = "done" -> Ended("done")
          [] nxt = "epi" ->
                LET lt == m["long_term_episodic"].messages
                    tc == SelectSeq2(h, lt, FALSE)
                IN  IF lt = <<>> \/ tc = <<>>
                    THEN Ended("done")
                    ELSE [r1 EXCEPT !.pc = "llm", !.step = "epi", !.lt = lt,
                                    !.to_compress = tc,
                                    !.trace = Append(@, Event("epi", "start"))]
          [] OTHER ->
                [r1 EXCEPT !.pc = "llm", !.step = nxt, !.lt = <<>>,
                           !.to_compress = <<>>,
                           !.trace = Append(@, Event(nxt, "start"))]

Replace(ps, r, r2) == (ps (-) SetToBag({r})) (+) SetToBag({r2})

\* The maintenance threads are daemon threads: they run as long as the
\* program does.
Running ==
    IF mainPc = "exit" THEN {}
    ELSE {r \in BagToSet(passes) : r.pc \notin {"done", "dead"}}
Alive(ps) == {r \in BagToSet(ps) : r.pc \notin {"done", "dead"}}

\* The effect of a step on the shared state. The counter of durable writes
\* and the record of the last call are kept by SpecTier and SpecCtx only.
Commit(h, b) ==
    /\ heap' = h
    /\ mem' = b.mem
    /\ disk' = b.disk
    /\ UNCHANGED <<writes, last, pre>>

\* Mutant of FirstVisited: the loop starts at the most recent message.
FirstVisitedIsLast(msgs) == Len(msgs)

\* for message in reversed(messages[:-1]): the position in the snapshot of the
\* message the loop visits first, the most recent but one (0: none).
FirstVisited(msgs) == Len(msgs) - 1

\* The thread starts running: _compress_working_memory takes its snapshot of
\* the working tier and returns at once when the tier is empty.
PassStart ==
    \E r \in Running :
        /\ r.pc = "start"
        /\ LET msgs == mem["working"].messages
               r1 == [r EXCEPT !.trace = Append(@, Event("wm", "start"))]
           IN  passes' = Replace(passes, r,
                    IF msgs = <<>>
                    THEN Continue(r1, "wm", heap, mem)
                    ELSE [r1 EXCEPT !.pc = "run", !.step = "wm", !.msgs = msgs,
                                    !.idx = FirstVisited(msgs)])
        /\ UNCHANGED <<heap, cfg, sc, clock, rd, fs, saving, mem, disk, writes, last, layers, appended, pre, mainPc, notes>>

\* One round of the loop of _compress_working_memory over
\* reversed(messages[:-1]): the loop ends (exhausted, or the message is
\* already compressed) and the tier is saved if anything changed; or a short
\* message is passed through; or the LLM is called for a long one.
WmRun ==
    \E r \in Running :
        /\ r.pc = "run" /\ r.step = "wm"
        /\ IF r.idx = 0 \/ heap[r.msgs[r.idx]].compressed_content # None
           THEN LET b == IF r.changed THEN Save(cfg, heap, Now, "working") ELSE Now
                IN  /\ Commit(heap, b)
                    /\ passes' = Replace(passes, r, Continue(r, "wm", heap, b.mem))
                    /\ UNCHANGED notes
           ELSE IF heap[r.msgs[r.idx]].content = "short"
           THEN /\ heap' = [heap EXCEPT ![r.msgs[r.idx]].compressed_content = "short"]
                /\ passes' = Replace(passes, r,
                        [r EXCEPT !.changed = TRUE, !.idx = @ - 1])
                /\ UNCHANGED <<mem, disk, writes, last, pre, notes>>
           ELSE /\ passes' = Replace(passes, r, [r EXCEPT !.pc = "llm"])
                /\ UNCHANGED <<heap, mem, disk, writes, last, pre>>
        /\ UNCHANGED <<cfg, sc, clock, rd, fs, saving, layers, appended, mainPc, notes>>

\* Mutant of UpdateEpisodic: the raw messages stay visible beside the summary.
UpdateEpisodicKeepsAll(c, h, b, r, summary) ==
    LET b1 == AddUncompressed(c, h, b, "long_term_episodic", r.to_compress)
    IN  SetMessages(c, h, b1, "long_term_episodic", Append(r.lt, summary))

\* _update_episodic_memory after the LLM call returned a summary:
\* add_uncompressed(to_compress), then set_messages(memory entries of the
\* snapshot + the new summary).
UpdateEpisodic(c, h, b, r, summary) ==
    LET b1 == AddUncompressed(c, h, b, "long_term_episodic", r.to_compress)
        remaining == Append(SelectSeq2(h, r.lt, TRUE), summary)
    IN  SetMessages(c, h, b1, "long_term_episodic", remaining)

StepTier(step) ==
    CASE step = "fact" -> "long_term_factual"
      [] step = "goal" -> "model_goal"

\* Mutant of NoOutput: an empty answer is used like any other.
NoOutputIgnored(out) == FALSE

\* summary = self.nostream(messages).strip(); if not summary: return
NoOutput(out) == out = "empty"

\* Mutant of Compressed: the answer is assigned even when it is empty.
CompressedUnchecked(old, out) == IF out = "text" THEN "summary" ELSE ""

\* _compress_working_memory: if compressed: message.compressed_content =
\* compressed. The compressed content of the message after the call, given
\* the one before it and the answer of the LLM.
Compressed(old, out) == IF out = "text" THEN "summary" ELSE old

\* Model.nostream returns `out` to the maintenance step the thread r is in.
LlmReturns(r, out) ==
        /\ r.pc = "llm"
        /\ IF r.step = "wm"
           THEN /\ heap' = [heap EXCEPT ![r.msgs[r.idx]].compressed_content =
                                            Compressed(@, out)]
                /\ passes' = Replace(passes, r,
                        [r EXCEPT !.pc = "run", !.idx = @ - 1,
                                  !.changed = (@ \/ out = "text")])
                /\ UNCHANGED <<mem, disk, writes, last, pre, notes>>
           ELSE IF NoOutput(out)
           THEN /\ passes' = Replace(passes, r, Continue(r, r.step, heap, mem))
                /\ UNCHANGED <<heap, mem, disk, writes, last, pre, notes>>
           ELSE LET m == IF r.step = "epi" THEN NoteRef("epi", notes + 1)
                         ELSE NoteRef(r.step, 1)
                    b == IF r.step = "epi"
                         THEN UpdateEpisodic(cfg, heap, Now, r, m)
                         ELSE SetMessages(cfg, heap, Now, StepTier(r.step), <<m>>)
                IN  /\ Commit(heap, b)
                    /\ notes' = IF r.step = "epi" THEN notes + 1 ELSE notes
                    /\ passes' = Replace(passes, r, Continue(r, r.step, heap, b.mem))
        /\ UNCHANGED <<cfg, sc, clock, rd, fs, saving, layers, appended, mainPc>>

\* Model.nostream returns inside a maintenance step.
LlmReturn == \E r \in Running, out \in Outputs : LlmReturns(r, out)

\* Model.nostream raises (transport error): the exception ends the thread.
LlmRaise ==
    \E r \in Running :
        /\ r.pc = "llm"
        /\ passes' = Replace(passes, r, Ended("dead"))
        /\ UNCHANGED <<heap, cfg, sc, clock, rd, fs, saving, mem, disk, writes, last, layers, appended, pre, mainPc, notes>>

\* ------------------------------------------- Model: the interactive path
\* What the interactive loop appends: a line typed by the user is shorter than
\* the 150 characters of _compress_message, an answer of the assistant longer.
UserContents == {"short"}
AssistantContents == {"long"}

\* Mutant of Joined: append waits for the maintenance threads (thread.join()).
JoinedAll(ps) == Alive(ps)

\* The threads Model.append waits for before it returns: none, the thread is
\* started and never joined.
Joined(ps) == {}

\* Model.append comes back to its caller once every thread it waits for has
\* ended.
AppendReturns == \A r \in Joined(passes) : r.pc \in {"done", "dead"}

\* Model.append(role, content): Context.append, then the maintenance thread
\* is created and started; nothing is started when Context.append raises.
ModelAppend(role, content, pc) ==
    /\ BagCardinality(passes) < MaxAppends
    /\ AppendReturns
    /\ LET h == Append(heap, Stamp(Message(role, content), clock))
           m == Len(h)
           r == ContextAppend(cfg, h, Now, layers, m)
       IN  /\ Commit(h, r)
           /\ appended' = IF r.raised THEN appended ELSE Append(appended, m)
           /\ passes' = IF r.raised THEN passes ELSE passes (+) SetToBag({NewPass})
    /\ mainPc' = pc
    /\ UNCHANGED <<cfg, fs, saving, layers, notes>>

\* _chat_loop: the user enters a line; model.append("user", text), then
\* stream_completion calls model.stream, whose _update_workspace calls the LLM.
UserTurn ==
    /\ mainPc = "prompt"
    /\ \E content \in UserContents : ModelAppend("user", content, "workspace")
    /\ UNCHANGED <<sc, clock, rd>>

\* _update_workspace after nostream returned: an empty answer leaves the
\* workspace as it is, else set_messages replaces it; then _stream_int posts
\* the request. A transport error is caught by stream_completion.
WorkspaceReturns(out) ==
    /\ mainPc = "workspace"
    /\ IF out = "error" \/ NoOutput(out)
       THEN UNCHANGED <<heap, mem, disk, writes, last, pre, notes>>
       ELSE /\ Commit(heap, SetMessages(cfg, heap, Now, "workspace",
                        <<NoteRef("workspace", 1)>>))
            /\ UNCHANGED notes
    /\ mainPc' = IF out = "error" THEN "prompt" ELSE "stream"
    /\ UNCHANGED <<cfg, sc, clock, rd, fs, saving, layers, appended, passes>>

WorkspaceReturn == \E out \in Outputs \cup {"error"} : WorkspaceReturns(out)

\* stream_completion: the stream ends with assistant text, which is appended
\* through model.append("assistant", text), ...
AssistantTurn ==
    /\ mainPc = "stream"
    /\ \E content \in AssistantContents : ModelAppend("assistant", content, "prompt")
    /\ UNCHANGED <<sc, clock, rd>>

\* ... or with no text, or with an error that is caught: nothing is appended.
StreamNoText ==
    /\ mainPc = "stream"
    /\ mainPc' = "prompt"
    /\ UNCHANGED <<heap, cfg, sc, clock, rd, fs, saving, mem, disk, writes, last, layers, appended, pre, passes, notes>>

\* Context.create(system_prompt) and Model(context) on an empty data
\* directory: the system prompt and the placeholder goal are stored.
FreshHeap ==
    <<Stamp(Message("system", "short"), Started),
      Stamp(Message("memory", "placeholder"), Started)>>

Fresh ==
    LET m == [t \in TierNames |->
                CASE t = "system" -> [EmptyMemory EXCEPT !.messages = <<1>>]
                  [] t = "model_goal" -> [EmptyMemory EXCEPT !.messages = <<2>>]
                  [] OTHER -> EmptyMemory]
    IN  [mem |-> m,
         disk |-> [t \in TierNames |->
                    IF t \in {"system", "model_goal"}
                    THEN SaveToDisk(ContextCreate[t], FreshHeap, m[t])
                    ELSE NoFile],
         writes |-> [t \in TierNames |-> 0],
         dropped |-> <<>>, raised |-> FALSE]

\* The data directory as n appends of an earlier session left it: the user's
\* lines and the assistant's answers went through Context.append, which
\* persists every tier it touches, and the session ended before its
\* maintenance threads (daemon threads) did anything.
RECURSIVE EarlierSession(_)
EarlierSession(n) ==
    IF n = 0
    THEN [heap |-> FreshHeap, b |-> Fresh]
    ELSE LET s == EarlierSession(n - 1)
             h == Append(s.heap,
                    Stamp(IF n % 2 = 1 THEN Message("user", "short")
                          ELSE Message("assistant", "long"), Started))
         IN  [heap |-> h,
              b |-> ContextAppend(ContextCreate, h, s.b, CreateLayers, Len(h))]

\* chat.py main: Context.create loads the tiers from the data directory, then
\* Model(context), then the chat loop waits for the user.
Init ==
    \E n \in 0..MaxLoaded :
        LET s == EarlierSession(n)
        IN  /\ heap = s.heap
            /\ cfg = ContextCreate
            /\ mem = s.b.mem
            /\ disk = s.b.disk
            /\ writes = s.b.writes
            /\ last = NoCall
            /\ layers = CreateLayers
            /\ appended = [i \in 1..n |-> Len(FreshHeap) + i]
            /\ pre = mem
            /\ mainPc = "prompt"
            /\ passes = EmptyBag
            /\ notes = 0
            /\ fs = FsOf(s.b.disk["working"])
            /\ saving = NoSave
            /\ sc = NoStream
            /\ clock = Started
            /\ rd = NoRender

MainNext == UserTurn \/ WorkspaceReturn \/ AssistantTurn \/ StreamNoText

PassNext == PassStart \/ WmRun \/ LlmReturn \/ LlmRaise

Next == MainNext \/ PassNext

Spec == Init /\ [][Next]_vars

\* ------------------------------------------ claims on the orchestrator
Range(s) == {s[i] : i \in 1..Len(s)}

\* C4 (as claimed): in every reachable state every appended message is in the
\* working tier, the short-term tier, the episodic tier's visible list or the
\* episodic tier's uncompressed shadow list.
C4_NoAppendedMessageIsLost ==
    \A i \in 1..Len(appended) :
        appended[i] \in Range(mem["working"].messages)
            \cup Range(mem["short_term"].messages)
            \cup Range(mem["long_term_episodic"].messages)
            \cup Range(mem["long_term_episodic"].uncompressed)

StepOrder == <<"wm", "epi", "fact", "goal">>
Rank(step) == CHOOSE i \in 1..Len(StepOrder) : StepOrder[i] = step

\* C9: within one maintenance pass the steps run in the fixed sequence
\* working-memory compression, episodic consolidation, factual rebuild, goal
\* rebuild: a step starts only when the step before it in that sequence has
\* started and finished, and a step finishes only after it started.
C9_StepsInFixedSequence ==
    \A r \in BagToSet(passes) :
        \A k \in 1..Len(r.trace) :
            LET e == r.trace[k]
            IN  IF e.ev = "start"
                THEN IF k = 1 THEN e.step = "wm"
                     ELSE /\ r.trace[k - 1].ev = "end"
                          /\ Rank(r.trace[k - 1].step) + 1 = Rank(e.step)
                ELSE k > 1 /\ r.trace[k - 1] = Event(e.step, "start")

\* C9 witness: a pass that went through compression, consolidation and the
\* factual rebuild and is now in the goal rebuild.
C9_Witness ==
    \E r \in BagToSet(passes) :
        /\ r.pc = "llm" /\ r.step = "goal"
        /\ Len(r.trace) = 7

\* The messages that were in the tiers when the program started.
Loaded ==
    Len(pre["working"].messages) + Len(pre["short_term"].messages)
        + Len(pre["long_term_episodic"].messages)

InLlmCall == {r \in BagToSet(passes) : r.pc = "llm"}

\* C10: Model.append writes the message into the Context and then launches
\* one maintenance pass without waiting for it: every appended message has its
\* pass, and while a pass sits in an LLM call (possibly for ever) an append
\* made by the interactive path returns, so that the path goes on to its next
\* append or request.
C10_AppendNeverWaits ==
    /\ BagCardinality(passes) = Len(appended) - Loaded
    /\ InLlmCall # {} => AppendReturns

\* C10 witness: a pass is still in the LLM call of its episodic consolidation
\* while a later append has been made and the next request is under way.
C10_Witness ==
    /\ \E r \in InLlmCall : r.step = "epi"
    /\ BagCardinality(passes) = 2
    /\ mainPc = "stream"

\* ------------------------- SpecSave: _save_to_disk of the working tier,
\* ------------------------- system call by system call
\* SpecSave is Spec with every _save_to_disk call of the working tier taken
\* apart into the system calls it makes: tmp_path.write_text opens <path>.tmp
\* for writing (which creates the file, or empties the file that has that
\* name), writes the text and closes; os.replace then renames <path>.tmp to
\* <path>. Every caller uses the same name <path>.tmp. The text is short
\* enough to reach the file in a single write. The files of the other tiers
\* are written in one step, as in Spec.

\* open(tmp_path, "w"): the new file system and the inode the descriptor is on.
FsOpen(f) ==
    IF f.tmp = 0
    THEN [fs |-> [f EXCEPT !.inodes = Append(@, <<>>), !.tmp = Len(f.inodes) + 1],
          fd |-> Len(f.inodes) + 1]
    ELSE [fs |-> [f EXCEPT !.inodes[f.tmp] = <<>>], fd |-> f.tmp]

\* write(fd, text) of a descriptor that stands at offset 0, and close.
FsWrite(f, fd, text) == [f EXCEPT !.inodes[fd] = text \o Drop(@, Len(text))]

\* os.replace(tmp_path, path), when <path>.tmp exists.
FsReplace(f) == [f EXCEPT !.target = f.tmp, !.tmp = 0]

\* _save_to_disk has built its payload.
Serialized(f, data) == [f EXCEPT !.saved = @ \cup {Text(data)}]

\* The file of the working tier as a completed _save_to_disk leaves it.
Written(b, data) == [b EXCEPT !.disk["working"] = [exists |-> TRUE, data |-> data]]

\* Model.append -> Context.append -> working.extend: _apply, then
\* _save_to_disk up to the payload. `then` is where the interactive loop goes
\* on when Model.append has returned.
AppendBegin(role, content, then) ==
    /\ BagCardinality(passes) < MaxAppends
    /\ LET h == Append(heap, Stamp(Message(role, content), clock))
           m == Len(h)
           r == Apply(cfg["working"], h, mem["working"].messages, <<m>>, <<>>)
           st == [mem["working"] EXCEPT !.messages = r.messages]
           data == Serialize(cfg["working"], h, st)
       IN  /\ heap' = h
           /\ mem' = [mem EXCEPT !["working"] = st]
           /\ IF r.raised
              THEN /\ mainPc' = then
                   /\ UNCHANGED <<fs, saving>>
              ELSE /\ mainPc' = "save"
                   /\ saving' = [pc |-> "open", payload |-> <<data>>, fd |-> 0,
                                 m |-> m, dropped |-> r.dropped, then |-> then]
                   /\ fs' = Serialized(fs, data)
    /\ UNCHANGED <<cfg, sc, clock, rd, disk, writes, last, layers, appended, pre, passes, notes>>

\* _chat_loop: model.append("user", text) begins.
UserTurnSave ==
    /\ mainPc = "prompt"
    /\ \E content \in UserContents : AppendBegin("user", content, "workspace")

\* stream_completion: model.append("assistant", text) begins.
AssistantTurnSave ==
    /\ mainPc = "stream"
    /\ \E content \in AssistantContents : AppendBegin("assistant", content, "prompt")

\* The interactive loop, in working.extend: tmp_path.write_text opens the file.
MainSaveOpen ==
    /\ mainPc = "save" /\ saving.pc = "open"
    /\ fs' = FsOpen(fs).fs
    /\ saving' = [saving EXCEPT !.pc = "write", !.fd = FsOpen(fs).fd]
    /\ UNCHANGED <<heap, cfg, sc, clock, rd, mem, disk, writes, last, layers, appended, pre,
                   mainPc, passes, notes>>

\* ... writes the text and closes.
MainSaveWrite ==
    /\ mainPc = "save" /\ saving.pc = "write"
    /\ fs' = FsWrite(fs, saving.fd, Text(saving.payload[1]))
    /\ saving' = [saving EXCEPT !.pc = "replace"]
    /\ UNCHANGED <<heap, cfg, sc, clock, rd, mem, disk, writes, last, layers, appended, pre,
                   mainPc, passes, notes>>

\* os.replace, and the rest of Model.append. When <path>.tmp is gone,
\* FileNotFoundError leaves Context.append and Model.append: stream_completion
\* catches it, _chat_loop does not, and the program ends. Else the loop of
\* Context.append forwards what the working tier dropped and Model.append
\* starts the maintenance thread.
MainSaveReplace ==
    /\ mainPc = "save" /\ saving.pc = "replace"
    /\ IF fs.tmp = 0
       THEN /\ mainPc' = IF saving.then = "workspace" THEN "exit" ELSE "prompt"
            /\ UNCHANGED <<heap, mem, disk, writes, last, pre, appended, passes, fs>>
       ELSE LET r == Cascade(cfg, heap, Written(Now, saving.payload[1]),
                             Tail(layers), saving.dropped)
            IN  /\ Commit(heap, r)
                /\ fs' = FsReplace(fs)
                /\ appended' = IF r.raised THEN appended ELSE Append(appended, saving.m)
                /\ passes' = IF r.raised THEN passes ELSE passes (+) SetToBag({NewPass})
                /\ mainPc' = saving.then
    /\ saving' = NoSave
    /\ UNCHANGED <<cfg, sc, clock, rd, layers, notes>>

\* One round of the loop of _compress_working_memory, as WmRun, but
\* self.context.working.save() only gets as far as the payload.
WmRunSave ==
    \E r \in Running :
        /\ r.pc = "run" /\ r.step = "wm"
        /\ IF r.idx = 0 \/ heap[r.msgs[r.idx]].compressed_content # None
           THEN IF r.changed
                THEN LET data == Serialize(cfg["working"], heap, mem["working"])
                     IN  /\ passes' = Replace(passes, r,
                                [r EXCEPT !.pc = "open", !.payload = <<data>>])
                         /\ fs' = Serialized(fs, data)
                         /\ UNCHANGED heap
                ELSE /\ passes' = Replace(passes, r, Continue(r, "wm", heap, mem))
                     /\ UNCHANGED <<heap, fs>>
           ELSE IF heap[r.msgs[r.idx]].content = "short"
           THEN /\ heap' = [heap EXCEPT ![r.msgs[r.idx]].compressed_content = "short"]
                /\ passes' = Replace(passes, r,
                        [r EXCEPT !.changed = TRUE, !.idx = @ - 1])
                /\ UNCHANGED fs
           ELSE /\ passes' = Replace(passes, r, [r EXCEPT !.pc = "llm"])
                /\ UNCHANGED <<heap, fs>>
        /\ UNCHANGED <<cfg, sc, clock, rd, mem, disk, writes, last, layers, appended, pre, mainPc,
                       notes, saving>>

\* A maintenance thread, in working.save(): tmp_path.write_text opens the file.
PassSaveOpen ==
    \E r \in Running :
        /\ r.pc = "open"
        /\ fs' = FsOpen(fs).fs
        /\ passes' = Replace(passes, r, [r EXCEPT !.pc = "write", !.fd = FsOpen(fs).fd])
        /\ UNCHANGED <<heap, cfg, sc, clock, rd, mem, disk, writes, last, layers, appended, pre,
                       mainPc, notes, saving>>

\* ... writes the text and closes.
PassSaveWrite ==
    \E r \in Running :
        /\ r.pc = "write"
        /\ fs' = FsWrite(fs, r.fd, Text(r.payload[1]))
        /\ passes' = Replace(passes, r, [r EXCEPT !.pc = "replace"])
        /\ UNCHANGED <<heap, cfg, sc, clock, rd, mem, disk, writes, last, layers, appended, pre,
                       mainPc, notes, saving>>

\* os.replace: FileNotFoundError ends the thread when <path>.tmp is gone, else
\* _compress_working_memory returns and the pass goes on.
PassSaveReplace ==
    \E r \in Running :
        /\ r.pc = "replace"
        /\ IF fs.tmp = 0
           THEN /\ passes' = Replace(passes, r, Ended("dead"))
                /\ UNCHANGED <<heap, mem, disk, writes, last, pre, fs>>
           ELSE /\ Commit(heap, Written(Now, r.payload[1]))
                /\ fs' = FsReplace(fs)
                /\ passes' = Replace(passes, r,
                        Continue([r EXCEPT !.payload = <<>>, !.fd = 0], "wm", heap, mem))
        /\ UNCHANGED <<cfg, sc, clock, rd, layers, appended, mainPc, notes, saving>>

MainNextSave ==
    \/ UserTurnSave \/ MainSaveOpen \/ MainSaveWrite \/ MainSaveReplace
    \/ WorkspaceReturn \/ AssistantTurnSave \/ StreamNoText

PassNextSave ==
    \/ PassStart \/ WmRunSave \/ PassSaveOpen \/ PassSaveWrite \/ PassSaveReplace
    \/ LlmReturn \/ LlmRaise

NextSave == MainNextSave \/ PassNextSave

SpecSave == Init /\ [][NextSave]_vars

\* ------------------------------------------------ claims on persistence
\* C6 (as claimed): at every instant, also while the interactive path and a
\* maintenance pass, or two passes, save the working tier concurrently, the
\* tier file holds the complete serialization that one single save call
\* produced, never a partially written or mixed text.
C6_ReaderSeesOneCompleteSave ==
    fs.target # 0 => fs.inodes[fs.target] \in fs.saved

\* --------------------------------------- SpecStream: stream_completion
\* A text is a sequence of characters; "a" stands for any character that
\* str.strip() keeps and " " for whitespace.
Deltas == {<<"a">>, <<" ">>}
Usages == {"u1", "u2"}

\* The lines response.iter_lines() can yield, by what the loop does with
\* them. A chunk is a line "data: <JSON object>": usage is the value of its
\* usage key (None: no such key), content is choices[0].delta.content (<<>>:
\* no choices, no such key or an empty string), reasoning tells whether
\* choices[0].delta.reasoning_content is a non-empty string.
Line(kind, usage, content, reasoning) ==
    [kind |-> kind, usage |-> usage, content |-> content, reasoning |-> reasoning]

Chunks ==
    {Line("chunk", u, c, FALSE) : u \in Usages \cup {None}, c \in Deltas \cup {<<>>}}
        \cup {Line("chunk", None, c, TRUE) : c \in {<<>>, <<"a">>}}

Lines ==
    Chunks \cup {Line(k, None, <<>>, FALSE) :
                    k \in {"blank", "undecodable", "other", "done", "junk"}}

Responses == UNION {[1..n -> Lines] : n \in 0..MaxLines}

RECURSIVE Join(_)
Join(parts) == IF parts = <<>> THEN <<>> ELSE Head(parts) \o Join(Tail(parts))

\* str.strip()
RECURSIVE Strip(_)
Strip(t) ==
    IF t = <<>> THEN <<>>
    ELSE IF Head(t) = " " THEN Strip(Tail(t))
    ELSE IF t[Len(t)] = " " THEN Strip(SubSeq(t, 1, Len(t) - 1))
    ELSE t

\* Mutant of Accumulate: reasoning deltas are accumulated as well.
AccumulateReasoning(parts, line) ==
    IF line.content # <<>> THEN Append(parts, line.content)
    ELSE IF line.reasoning THEN Append(parts, <<"a">>)
    ELSE parts

\* assistant_text_parts.append(content) for a non-empty content delta.
Accumulate(parts, line) ==
    IF line.content # <<>> THEN Append(parts, line.content) ELSE parts

\* The flag `reasoning` after the branch 'content' of a chunk:
\* if reasoning: reasoning = False.
ReasoningAfterContent(reasoning, line) ==
    IF line.content # <<>> THEN FALSE ELSE reasoning

\* The flag after the chunk: the branch 'content', then the branch
\* 'reasoning_content' (if not reasoning: reasoning = True).
ReasoningAfter(reasoning, line) ==
    IF line.reasoning THEN TRUE ELSE ReasoningAfterContent(reasoning, line)

\* Mutant of MarksAfter: the enter sequence is printed for every reasoning
\* delta.
MarksAfterEveryReasoning(marks, reasoning, line) ==
    LET left == IF line.content # <<>> /\ reasoning
                THEN Append(marks, "leave") ELSE marks
    IN  IF line.reasoning THEN Append(left, "enter") ELSE left

\* The escape sequences printed after the chunk: print("\033[0m\n") in the
\* branch 'content' when the flag is set, then print("\033[34m") in the
\* branch 'reasoning_content' when it is not.
MarksAfter(marks, reasoning, line) ==
    LET left == IF line.content # <<>> /\ reasoning
                THEN Append(marks, "leave") ELSE marks
    IN  IF line.reasoning /\ ~ReasoningAfterContent(reasoning, line)
        THEN Append(left, "enter") ELSE left

\* Mutant of UsageAfter: the first usage object seen is kept.
UsageAfterKeepsFirst(usage, line) ==
    IF line.usage # None /\ usage = None THEN line.usage ELSE usage

\* if chunk.get('usage'): usage = chunk['usage']
UsageAfter(usage, line) == IF line.usage # None THEN line.usage ELSE usage

\* Mutant of Except: the exception leaves stream_completion.
ExceptPropagates(s, cause) ==
    [sc |-> [s EXCEPT !.pc = "raised", !.error = cause], mainPc |-> "exit"]

\* except Exception: print, return None. The caller goes on.
Except(s, cause) ==
    [sc |-> [s EXCEPT !.pc = "returned", !.result = None, !.error = cause],
     mainPc |-> "prompt"]

\* completion.py main: Context.create on the data directory that n earlier
\* calls left, ctx.append("user", prompt), Model(ctx); stream_completion is
\* about to call model.stream.
InitStream ==
    \E n \in 1..MaxLoaded :
        LET s == EarlierSession(n)
        IN  /\ n % 2 = 1
            /\ heap = s.heap
            /\ cfg = ContextCreate
            /\ mem = s.b.mem
            /\ disk = s.b.disk
            /\ writes = s.b.writes
            /\ last = NoCall
            /\ layers = CreateLayers
            /\ appended = [i \in 1..n |-> Len(FreshHeap) + i]
            /\ pre = mem
            /\ mainPc = "workspace"
            /\ passes = EmptyBag
            /\ notes = 0
            /\ fs = FsOf(s.b.disk["working"])
            /\ saving = NoSave
            /\ sc = [NoStream EXCEPT !.pc = "call"]
            /\ clock = Started
            /\ rd = NoRender

\* model.stream: _update_workspace (as WorkspaceReturn), then _stream_int
\* posts the request. A transport error of either call is caught by
\* stream_completion; else the loop over response.iter_lines() begins.
StreamRequest ==
    /\ mainPc = "workspace" /\ sc.pc = "call"
    /\ \E out \in Outputs \cup {"error"}, post \in {"ok", "error"}, ls \in Responses :
        /\ IF out = "error" \/ NoOutput(out)
           THEN UNCHANGED <<heap, mem, disk, writes, last, pre>>
           ELSE Commit(heap, SetMessages(cfg, heap, Now, "workspace",
                            <<NoteRef("workspace", 1)>>))
        /\ IF out = "error" \/ post = "error"
           THEN /\ sc' = Except(sc, "transport").sc
                /\ mainPc' = Except(sc, "transport").mainPc
           ELSE /\ sc' = [sc EXCEPT !.pc = "loop", !.lines = ls, !.idx = 1]
                /\ mainPc' = "stream"
    /\ UNCHANGED <<cfg, layers, appended, passes, notes, fs, saving, clock, rd>>

\* One round of the loop over response.iter_lines().
StreamLine ==
    /\ sc.pc = "loop" /\ sc.idx <= Len(sc.lines)
    /\ LET line == sc.lines[sc.idx]
           next == [sc EXCEPT !.idx = @ + 1]
       IN  CASE line.kind \in {"blank", "other"} ->
                    sc' = next /\ UNCHANGED mainPc
             [] line.kind \in {"undecodable", "junk"} ->
                    /\ sc' = Except(sc, "line").sc
                    /\ mainPc' = Except(sc, "line").mainPc
             [] line.kind = "done" ->
                    sc' = [sc EXCEPT !.pc = "end"] /\ UNCHANGED mainPc
             [] line.kind = "chunk" ->
                    /\ sc' = [next EXCEPT
                                !.usage = UsageAfter(@, line),
                                !.parts = Accumulate(@, line),
                                !.reasoning = ReasoningAfter(@, line),
                                !.marks = MarksAfter(@, sc.reasoning, line)]
                    /\ UNCHANGED mainPc
    /\ UNCHANGED <<heap, cfg, mem, disk, writes, last, layers, appended, pre,
                   passes, notes, fs, saving, clock, rd>>

\* response.iter_lines() raises: the connection broke while reading.
StreamReadError ==
    /\ sc.pc = "loop"
    /\ sc' = Except(sc, "transport").sc
    /\ mainPc' = Except(sc, "transport").mainPc
    /\ UNCHANGED <<heap, cfg, mem, disk, writes, last, layers, appended, pre,
                   passes, notes, fs, saving, clock, rd>>

\* After the loop: print("\033[0m"); the stripped text, when not empty, is appended through
\* model.append("assistant", text); the usage is returned.
StreamEnd ==
    /\ \/ sc.pc = "end"
       \/ sc.pc = "loop" /\ sc.idx > Len(sc.lines)
    /\ LET assistant_text == Strip(Join(sc.parts))
       IN  IF assistant_text # <<>>
           THEN /\ ModelAppend("assistant", assistant_text, "prompt")
                /\ sc' = [sc EXCEPT !.pc = "returned", !.result = sc.usage,
                                    !.marks = Append(@, "reset"),
                                    !.appends = Append(@, assistant_text)]
           ELSE /\ sc' = [sc EXCEPT !.pc = "returned", !.result = sc.usage,
                                    !.marks = Append(@, "reset")]
                /\ mainPc' = "prompt"
                /\ UNCHANGED <<heap, cfg, mem, disk, writes, last, layers, appended,
                               pre, passes, notes, fs, saving>>
    /\ UNCHANGED <<clock, rd>>

NextStream == StreamRequest \/ StreamLine \/ StreamReadError \/ StreamEnd

SpecStream == InitStream /\ [][NextStream]_vars

\* ------------------------------------------- claims on stream_completion
\* The content deltas of the event-marker lines before the terminator, in
\* order: lines that are not chunks contribute nothing.
RECURSIVE ContentBeforeTerminator(_)
ContentBeforeTerminator(ls) ==
    IF ls = <<>> \/ Head(ls).kind = "done" THEN <<>>
    ELSE Head(ls).content \o ContentBeforeTerminator(Tail(ls))

\* The usage object of the last chunk before the terminator that carried one.
RECURSIVE UsageBeforeTerminator(_, _)
UsageBeforeTerminator(ls, usage) ==
    IF ls = <<>> \/ Head(ls).kind = "done" THEN usage
    ELSE UsageBeforeTerminator(Tail(ls),
            IF Head(ls).usage # None THEN Head(ls).usage ELSE usage)

\* The lines the loop reaches: those before the terminator.
RECURSIVE BeforeTerminator(_)
BeforeTerminator(ls) ==
    IF ls = <<>> \/ Head(ls).kind = "done" THEN <<>>
    ELSE <<Head(ls)>> \o BeforeTerminator(Tail(ls))

Malformed(ls) == \E i \in 1..Len(ls) : ls[i].kind \in {"undecodable", "junk"}

OneMessage(text) == IF text = <<>> THEN <<>> ELSE <<text>>

Returned == sc.pc = "returned"

\* C11 (as claimed): a malformed line (undecodable or unparsable) does not
\* abort the stream: unless the transport fails, the call ends normally and
\* the content of the well-formed lines before the terminator is appended as
\* the assistant message.
C11_MalformedLineIsSkipped ==
    (Returned /\ sc.error # "transport") =>
        /\ sc.error = None
        /\ sc.appends = OneMessage(Strip(ContentBeforeTerminator(sc.lines)))

\* C12 (as claimed): when the stream is read without a failure, the assistant
\* text is the concatenation of the content deltas before the terminator, and
\* one assistant message carrying it is appended if it is non-empty, none
\* otherwise.
C12_TextIsConcatenation ==
    (Returned /\ sc.error = None) =>
        sc.appends = OneMessage(ContentBeforeTerminator(sc.lines))

\* C12 (amended): when the stream is read without a failure, the assistant
\* text is the concatenation, in order, of the content deltas of the
\* event-marker lines before the terminator, stripped of leading and trailing
\* whitespace; reasoning deltas, other lines and everything after the
\* terminator contribute nothing; exactly one assistant message carrying the
\* text is appended if it is non-empty, none otherwise. When a line fails to
\* decode or parse, or the transport fails, nothing is appended.
C12_TextIsStrippedConcatenation ==
    Returned =>
        sc.appends = IF sc.error = None
                     THEN OneMessage(Strip(ContentBeforeTerminator(sc.lines)))
                     ELSE <<>>

\* C12 witness: a response with a content delta, the terminator and a
\* content delta after it has been read; one message with the text of the
\* first delta was appended.
C12_Witness ==
    /\ Returned /\ sc.error = None
    /\ Len(sc.lines) = 3 /\ sc.lines[2].kind = "done"
    /\ sc.lines[1].content # <<>> /\ sc.lines[3].content # <<>>
    /\ sc.appends = <<sc.lines[1].content>>

\* C13: on normal stream end the call returns the usage object of the last
\* processed chunk that carried usage statistics, and no usage when no
\* processed chunk carried any.
C13_ReturnsLastUsage ==
    (Returned /\ sc.error = None) =>
        sc.result = UsageBeforeTerminator(sc.lines, None)

\* C13 witness: two processed chunks carried different usage objects and the
\* second one's was returned.
C13_Witness ==
    /\ Returned /\ sc.error = None
    /\ \E i, j \in 1..Len(BeforeTerminator(sc.lines)) :
          /\ i < j
          /\ sc.lines[i].usage # None /\ sc.lines[j].usage # None
          /\ sc.lines[i].usage # sc.lines[j].usage
          /\ sc.result = sc.lines[j].usage

\* C14: when the request or the reading of the stream fails with a transport
\* error, the call returns no usage, appends no assistant message, and the
\* interactive loop goes on: no exception reaches it.
C14_TransportErrorIsCaught ==
    /\ sc.pc # "raised" /\ mainPc # "exit"
    /\ sc.error = "transport" =>
          /\ Returned /\ sc.result = None /\ sc.appends = <<>>
          /\ mainPc = "prompt"

\* C14 witness: the connection broke after a content delta and a usage object
\* had been read.
C14_Witness ==
    /\ Returned /\ sc.error = "transport"
    /\ sc.parts # <<>> /\ sc.usage # None

\* ------------------------------------ claims on failing and empty LLM calls
\* C15 (as claimed): a non-streaming completion call that fails with a
\* transport error returns empty text instead of raising, so no maintenance
\* thread is ever ended by an exception.
C15_TransportErrorIsEmptyText ==
    \A r \in BagToSet(passes) : r.pc # "dead"

\* The LLM returns empty output to the episodic consolidation, the factual
\* rebuild or the goal rebuild of some pass, or to the workspace update.
EmptyOutputStep ==
    \/ \E r \in Running : r.step \in {"epi", "fact", "goal"} /\ LlmReturns(r, "empty")
    \/ WorkspaceReturns("empty")

\* C16: when the LLM returns empty output in episodic consolidation, factual
\* rebuild, goal rebuild or the workspace update, the step changes nothing:
\* the visible messages and the shadow list of every tier, the files and the
\* messages themselves are as before, so the raw episodic messages are still
\* there for the next pass; no thread ends on an error and the interactive
\* loop goes on.
C16_EmptyOutputChangesNothing ==
    [][EmptyOutputStep =>
          /\ UNCHANGED <<mem, disk, heap, notes>>
          /\ \A r \in BagToSet(passes') : r.pc # "dead" \/ r \in BagToSet(passes)
          /\ mainPc' \in {mainPc, "stream"}]_vars

\* C16 witness: a pass whose episodic consolidation got empty output has gone
\* on to the factual rebuild; no summary exists and the raw message is still
\* in the episodic tier, the shadow list still empty.
C16_Witness ==
    /\ notes = 0
    /\ \E r \in BagToSet(passes) : r.step = "fact" /\ r.pc = "llm"
    /\ \E i \in 1..Len(mem["long_term_episodic"].messages) :
          mem["long_term_episodic"].messages[i] > 0
    /\ mem["long_term_episodic"].uncompressed = <<>>

\* ------------------------------------------- rendering (Memory.to_messages)
\* Memory.__init__: the rendering flags that follow from the constructor's
\* arguments.
RenderInit(is_working_memory, is_short_term_memory, render_prefix) ==
    [use_compressed_content |-> ~is_working_memory,
     include_timestamp |-> is_working_memory \/ is_short_term_memory,
     render_prefix |-> render_prefix]

\* Memory._render_role
RenderRole(message) == IF message.role = "memory" THEN "system" ELSE message.role

\* datetime.now().strftime("%Y-%m-%d %H:%M"): the minute of the clock reading
\* (the host's zone is taken to be UTC, the zone of the stored timestamps).
NowPrefix(now) == <<now \div TicksPerMinute>>

\* Mutant of TimestampPrefix: every message but the last carries its
\* formatted timestamp, the second-to-last included.
TimestampPrefixAllButLast(message, idx, len, now) ==
    IF idx < len - 1 /\ message.formatted_timestamp # <<>>
    THEN message.formatted_timestamp
    ELSE IF idx = len - 1 THEN NowPrefix(now) ELSE <<>>

\* Memory._render_content, the choice of `timestamp` for the message at the
\* 0-based position idx of a tier that holds len messages: the empty tuple
\* is None.
TimestampPrefix(message, idx, len, now) ==
    IF idx < len - 2 /\ message.formatted_timestamp # <<>>
    THEN message.formatted_timestamp
    ELSE IF idx = len - 1 THEN NowPrefix(now) ELSE <<>>

\* Memory._render_content: the string it returns, as the record of the parts
\* that the two f-strings join with blank lines: the timestamp (the empty
\* tuple when there is none), the render prefix (None when there is none) and
\* the content.
RenderContent(c, h, ms, idx, now) ==
    LET m == Obj(h, ms[idx + 1])
        compress == c.use_compressed_content /\ m.compressed_content # None
        content == IF compress /\ m.compressed_content # ""
                   THEN m.compressed_content ELSE m.content
    IN  [timestamp |-> IF c.include_timestamp
                       THEN TimestampPrefix(m, idx, Len(ms), now) ELSE <<>>,
         prefix |-> IF idx = 0 /\ c.render_prefix # None /\ c.render_prefix # ""
                    THEN c.render_prefix ELSE None,
         text |-> content]

\* Memory.to_messages
ToMessages(c, h, ms, now) ==
    [i \in 1..Len(ms) |->
        [role |-> RenderRole(Obj(h, ms[i])),
         content |-> RenderContent(c, h, ms, i - 1, now)]]

\* Context.create: the rendering arguments of every tier.
ContextRenderInit ==
    [t \in TierNames |->
        CASE t = "system" -> RenderInit(FALSE, FALSE, None)
          [] t = "model_goal" -> RenderInit(FALSE, FALSE, "#Assistant goals")
          [] t = "workspace" ->
                RenderInit(FALSE, FALSE, "#Workspace (DO NOT expose unless asked!)")
          [] t = "long_term_episodic" ->
                RenderInit(FALSE, FALSE, "#Long-term episodic memory")
          [] t = "long_term_factual" ->
                RenderInit(FALSE, FALSE, "#Long-term factual memory")
          [] t = "short_term" -> RenderInit(FALSE, TRUE, "#short-term memory")
          [] t = "recall" -> RenderInit(FALSE, FALSE, None)
          [] t = "working" -> RenderInit(TRUE, FALSE, None)]

\* Mutant of RenderOrder: the recall tier rendered before the working tier.
RenderOrderWithRecall ==
    <<"system", "long_term_episodic", "model_goal", "long_term_factual",
      "short_term", "workspace", "recall", "working">>

\* Context.to_messages: the tiers in the order of its extend calls.
RenderOrder ==
    <<"system", "long_term_episodic", "model_goal", "long_term_factual",
      "short_term", "workspace", "working">>

\* Context.to_messages: all_messages after the extend calls.
RECURSIVE ExtendAll(_, _, _, _, _)
ExtendAll(order, c, h, b, now) ==
    IF order = <<>> THEN <<>>
    ELSE ToMessages(c[Head(order)], h, b[Head(order)].messages, now)
            \o ExtendAll(Tail(order), c, h, b, now)

ContextToMessages(c, h, b, now) == ExtendAll(RenderOrder, c, h, b, now)

\* The tier that each message of Context.to_messages was taken from.
RECURSIVE SourcesAll(_, _)
SourcesAll(order, b) ==
    IF order = <<>> THEN <<>>
    ELSE [i \in 1..Len(b[Head(order)].messages) |-> Head(order)]
            \o SourcesAll(Tail(order), b)

ContextSources(b) == SourcesAll(RenderOrder, b)

\* ------------------------------- SpecRender: a Context and what it renders
\* Context.create(system_prompt=...) on an empty data directory, with the
\* rendering policy of every tier.
InitRender ==
    /\ heap = <<Stamp(Message("system", "short"), Started)>>
    /\ cfg = [t \in TierNames |-> ContextCreate[t] @@ ContextRenderInit[t]]
    /\ mem = [t \in TierNames |->
                IF t = "system" THEN [EmptyMemory EXCEPT !.messages = <<1>>]
                ELSE EmptyMemory]
    /\ disk = [t \in TierNames |->
                IF t = "system"
                THEN SaveToDisk(cfg[t], heap, mem[t])
                ELSE NoFile]
    /\ writes = [t \in TierNames |-> IF t = "system" THEN 1 ELSE 0]
    /\ last = NoCall
    /\ layers = CreateLayers
    /\ appended = <<>>
    /\ pre = mem
    /\ mainPc = "none"
    /\ passes = EmptyBag
    /\ notes = 0
    /\ fs = NoFs
    /\ saving = NoSave
    /\ sc = NoStream
    /\ clock = Started
    /\ rd = NoRender

\* A message that the tier rejects is referenced by nothing after the call
\* and is left out of the heap.
RenderRoles == {"user", "memory"}

\* ctx.<tier>.append(role, content): Memory.append on one tier of the Context.
RenderTierAppend(t, role) ==
    /\ Len(heap) <= MaxTierAppends
    /\ LET h == Append(heap, Stamp(Message(role, "short"), clock))
           r == Extend(cfg, h, Now, t, <<Len(h)>>)
       IN  /\ heap' = IF r.raised THEN heap ELSE h
           /\ mem' = r.mem
           /\ disk' = r.disk
           /\ writes' = r.writes
    /\ UNCHANGED <<cfg, sc, clock, rd, fs, saving, layers, appended, mainPc, passes, notes,
                   last, pre>>

\* Context.append(role, content)
RenderCtxAppend(role) ==
    /\ Len(heap) <= MaxTierAppends
    /\ LET h == Append(heap, Stamp(Message(role, "short"), clock))
           r == ContextAppend(cfg, h, Now, layers, Len(h))
       IN  /\ heap' = IF r.raised THEN heap ELSE h
           /\ mem' = r.mem
           /\ disk' = r.disk
           /\ writes' = r.writes
    /\ UNCHANGED <<cfg, sc, clock, rd, fs, saving, layers, appended, mainPc, passes, notes,
                   last, pre>>

\* Time passes.
Tick ==
    /\ clock < MaxTime
    /\ clock' = clock + 1
    /\ UNCHANGED <<heap, cfg, mem, disk, writes, last, layers, appended, pre, mainPc,
                   passes, notes, fs, saving, sc, rd>>

NextRender ==
    \/ \E t \in TierNames, role \in RenderRoles : RenderTierAppend(t, role)
    \/ \E role \in RenderRoles : RenderCtxAppend(role)
    \/ Tick

SpecRender == InitRender /\ [][NextRender]_vars

Texts == {"blank", "garbage", "undecodable", "object"}

TextFile(text) == [exists |-> TRUE, data |-> [text |-> text]]

\* The JSON text of a list with one item that has a content and no role.
ItemWithoutRole == [content |-> "long"]

ListFile(items) ==
    [exists |-> TRUE,
     data |-> [wrapped |-> FALSE, messages |-> items, uncompressed |-> <<>>]]

IsText(file) == "text" \in DOMAIN file.data

\* Path.read_text or json.loads raises.
ReadRaises(file) == IsText(file) /\ file.data.text \in {"garbage", "undecodable"}

\* Memory._parse_message raises ValueError: role is None or content is None.
ParseRaises(item) == "role" \notin DOMAIN item \/ "content" \notin DOMAIN item

\* Mutant of ParseMessage: the stored timestamp is not read back.
ParseMessageForgetsTimestamp(item) ==
    [role |-> item.role, content |-> item.content,
     compressed_content |-> item.compressed_content,
     timestamp |-> <<>>, formatted_timestamp |-> <<>>]

\* Memory._parse_message on an item that has role and content: the formatted
\* timestamp is computed from the stored timestamp, if there is one.
ParseMessage(item) ==
    [role |-> item.role, content |-> item.content,
     compressed_content |-> item.compressed_content,
     timestamp |-> item.timestamp,
     formatted_timestamp |-> IF item.timestamp # <<>>
                             THEN FormatTimestamp(item.timestamp) ELSE <<>>]

\* Memory._parse_messages
ParseMessages(items) == [i \in 1..Len(items) |-> ParseMessage(items[i])]

Refs(from, n) == [i \in 1..n |-> from + i]

\* The outcome of a constructor: the Message objects it created, the tier,
\* whether it raised and whether it renamed the file to <path>.bad.
Outcome(h, st, raised, quarantined) ==
    [heap |-> h, mem |-> st, raised |-> raised, quarantined |-> quarantined]

\* Memory._load_from_disk, the end: self._messages.clear(); self._apply(data).
\* Every item is parsed, stamped where it has no timestamp, validated and
\* appended under the capacity of the tier; what is evicted is dropped.
LoadApply(c, items, now) ==
    IF \E i \in 1..Len(items) : ParseRaises(items[i])
    THEN Outcome(<<>>, EmptyMemory, TRUE, FALSE)
    ELSE LET h == [i \in 1..Len(items) |-> Stamp(ParseMessage(items[i]), now)]
             r == Apply(c, h, <<>>, Refs(0, Len(items)), <<>>)
         IN  Outcome(h, [EmptyMemory EXCEPT !.messages = r.messages], r.raised, FALSE)

\* Memory._load_from_disk, the branch of a long-term tier on a list of one
\* object with the key "messages": both lists go through _parse_messages.
LoadWrapped(data) ==
    IF \E i \in 1..Len(data.messages) : ParseRaises(data.messages[i])
    THEN Outcome(<<>>, EmptyMemory, TRUE, FALSE)
    ELSE IF \E i \in 1..Len(data.uncompressed) : ParseRaises(data.uncompressed[i])
    THEN Outcome(<<>>, EmptyMemory, TRUE, FALSE)
    ELSE Outcome(ParseMessages(data.messages) \o ParseMessages(data.uncompressed),
                [messages |-> Refs(0, Len(data.messages)),
                 uncompressed |-> Refs(Len(data.messages), Len(data.uncompressed))],
                FALSE, FALSE)

\* Memory.__init__ with a persist_path: _load_from_disk on the file found.
LoadFromDisk(c, file, now) ==
    IF ~file.exists THEN Outcome(<<>>, EmptyMemory, FALSE, FALSE)
    ELSE IF ReadRaises(file) THEN Outcome(<<>>, EmptyMemory, FALSE, TRUE)
    ELSE IF IsText(file) THEN Outcome(<<>>, EmptyMemory, FALSE, FALSE)
    ELSE IF c.is_long_term_memory /\ file.data.wrapped THEN LoadWrapped(file.data)
    ELSE IF file.data.wrapped THEN LoadApply(c, <<[messages |-> file.data.messages]>>, now)
    ELSE LoadApply(c, file.data.messages, now)

\* ------------------------- SpecReload: one tier, its file and its restarts
\* rd.pc: "live" while a Memory object exists, "down" between two runs,
\* "raised" when the constructor raised. rd.before: what the tier rendered
\* when it was last persisted; rd.intact: the file is still the one that was
\* persisted; rd.found: the file that the last constructor found; rd.bad: the
\* file <path>.bad; rd.fresh: no call since the constructor; rd.saved: the
\* tier was saved since the constructor; rd.restarted: this is the second
\* run, the specification follows one restart.
\*
\* The flags and prefixes that Context.create gives to the working tier, the
\* short-term tier, the long-term episodic tier and the recall tier.
ReloadPolicies ==
    {[is_working_memory |-> TRUE, is_short_term_memory |-> FALSE,
      is_long_term_memory |-> FALSE, render_prefix |-> None],
     [is_working_memory |-> FALSE, is_short_term_memory |-> TRUE,
      is_long_term_memory |-> FALSE, render_prefix |-> "#short-term memory"],
     [is_working_memory |-> FALSE, is_short_term_memory |-> FALSE,
      is_long_term_memory |-> TRUE, render_prefix |-> "#Long-term episodic memory"],
     [is_working_memory |-> FALSE, is_short_term_memory |-> FALSE,
      is_long_term_memory |-> FALSE, render_prefix |-> None]}

InitReload ==
    /\ heap = <<>>
    /\ \E p \in ReloadPolicies, C \in {MaxCap - 1, MaxCap} :
          cfg = [t \in {"tier"} |->
                    MemoryInit({"user", "memory"}, C, 1, p.is_long_term_memory)
                        @@ RenderInit(p.is_working_memory, p.is_short_term_memory,
                                      p.render_prefix)]
    /\ mem = [t \in {"tier"} |-> EmptyMemory]
    /\ disk = [t \in {"tier"} |-> NoFile]
    /\ writes = [t \in {"tier"} |-> 0]
    /\ last = NoCall
    /\ layers = <<>>
    /\ appended = <<>>
    /\ pre = mem
    /\ mainPc = "none"
    /\ passes = EmptyBag
    /\ notes = 0
    /\ fs = NoFs
    /\ saving = NoSave
    /\ sc = NoStream
    /\ clock = Started
    /\ rd = [pc |-> "live", before |-> <<>>, intact |-> FALSE, found |-> NoFile,
             bad |-> NoFile, fresh |-> TRUE, saved |-> FALSE, restarted |-> FALSE]

\* Memory.extend([message]) with a new Message object, or one that an
\* earlier tier evicted and that may carry a compressed content.
ReloadExtend(role, compressed_content) ==
    /\ rd.pc = "live"
    /\ Len(heap) < MaxHeld
    /\ LET message == [Message(role, "long") EXCEPT
                            !.compressed_content = compressed_content]
           h == Append(heap, Stamp(message, clock))
           r == Extend(cfg, h, Now, "tier", <<Len(h)>>)
       IN  /\ heap' = IF r.raised THEN heap ELSE h
           /\ mem' = r.mem
           /\ disk' = r.disk
           /\ rd' = IF r.raised THEN rd
                    ELSE [rd EXCEPT !.fresh = FALSE, !.saved = TRUE, !.before = <<>>]
    /\ UNCHANGED <<cfg, writes, last, layers, appended, pre, mainPc, passes, notes,
                   fs, saving, sc, clock>>

\* Memory.save(), after which the run ends.
Persist ==
    /\ rd.pc = "live"
    /\ ~rd.restarted
    /\ disk' = [disk EXCEPT !["tier"] = SaveToDisk(cfg["tier"], heap, mem["tier"])]
    /\ rd' = [rd EXCEPT !.pc = "down", !.intact = TRUE,
                        !.before = ToMessages(cfg["tier"], heap,
                                              mem["tier"].messages, clock)]
    /\ UNCHANGED <<heap, cfg, mem, writes, last, layers, appended, pre, mainPc, passes,
                   notes, fs, saving, sc, clock>>

\* Between two runs something else rewrites the file.
Damage(file) ==
    /\ rd.pc = "down"
    /\ rd.intact
    /\ disk' = [disk EXCEPT !["tier"] = file]
    /\ rd' = [rd EXCEPT !.intact = FALSE]
    /\ UNCHANGED <<heap, cfg, mem, writes, last, layers, appended, pre, mainPc, passes,
                   notes, fs, saving, sc, clock>>

\* Memory(..., persist_path=path) with the policy of the tier before: the
\* objects of the run before are gone, the tier is what _load_from_disk
\* makes of the file; a file that cannot be read or decoded as JSON is
\* renamed to <path>.bad.
Construct ==
    /\ rd.pc = "down"
    /\ LET r == LoadFromDisk(cfg["tier"], disk["tier"], clock)
       IN  /\ heap' = r.heap
           /\ mem' = [mem EXCEPT !["tier"] = r.mem]
           /\ disk' = IF r.quarantined THEN [disk EXCEPT !["tier"] = NoFile] ELSE disk
           /\ rd' = [rd EXCEPT !.pc = IF r.raised THEN "raised" ELSE "live",
                               !.found = disk["tier"],
                               !.bad = IF r.quarantined THEN disk["tier"] ELSE @,
                               !.fresh = TRUE,
                               !.saved = FALSE,
                               !.restarted = TRUE]
    /\ UNCHANGED <<cfg, writes, last, layers, appended, pre, mainPc, passes, notes,
                   fs, saving, sc, clock>>

NextReload ==
    \/ \E role \in RenderRoles, cc \in {None, "short"} :
          ReloadExtend(role, cc)
    \/ Persist
    \/ \E text \in Texts : Damage(TextFile(text))
    \/ Damage(ListFile(<<ItemWithoutRole>>))
    \/ Construct
    \/ Tick

SpecReload == InitReload /\ [][NextReload]_vars

\* --------------------------------------- claims on rendering and reloading
Tier == mem["tier"].messages
Rendered == ToMessages(cfg["tier"], heap, Tier, clock)

\* C18: in a tier that renders timestamps, the last message is prefixed with
\* the current time, the second-to-last message has no timestamp prefix, and
\* every message before the last two is prefixed with its own cached
\* formatted timestamp.
C18_TimestampWindow ==
    rd.pc = "live" /\ cfg["tier"].include_timestamp =>
        LET n == Len(Tier)
        IN  /\ n >= 1 => Rendered[n].content.timestamp = NowPrefix(clock)
            /\ n >= 2 => Rendered[n - 1].content.timestamp = <<>>
            /\ \A i \in 1..(n - 2) :
                  /\ Obj(heap, Tier[i]).formatted_timestamp # <<>>
                  /\ Rendered[i].content.timestamp = Obj(heap, Tier[i]).formatted_timestamp

\* C18 witness: a tier that renders timestamps holds three messages or more,
\* all stamped in a minute that is over.
C18_Witness ==
    /\ rd.pc = "live"
    /\ cfg["tier"].include_timestamp
    /\ Len(Tier) >= 3
    /\ \A i \in 1..Len(Tier) : Obj(heap, Tier[i]).formatted_timestamp # NowPrefix(clock)

\* A rendering without the timestamp prefix of its last message.
WithoutLastPrefix(rendered) ==
    [i \in 1..Len(rendered) |->
        IF i = Len(rendered)
        THEN [rendered[i] EXCEPT !.content.timestamp = <<>>]
        ELSE rendered[i]]

Reconstructed == rd.pc = "live" /\ rd.fresh /\ rd.restarted /\ rd.intact

\* C19: a tier constructed with the same policy from the file that a tier
\* persisted renders the same list of messages (roles, contents, order) as
\* that tier did, apart from the current-time prefix of the last message.
C19_ReloadRendersTheSame ==
    Reconstructed => WithoutLastPrefix(Rendered) = WithoutLastPrefix(rd.before)

\* C19 witness: a tier of three messages, one of them with a compressed
\* content, the first stamped in a minute that is over, was persisted and
\* constructed again.
C19_Witness ==
    /\ Reconstructed
    /\ Len(rd.before) >= 3
    /\ Len(Tier) >= 3
    /\ \E i \in 1..Len(Tier) : Obj(heap, Tier[i]).compressed_content # None
    /\ Obj(heap, Tier[1]).formatted_timestamp # NowPrefix(clock)

\* The file cannot be parsed: it cannot be read as JSON text, or one of the
\* items of its list cannot be parsed as a message.
FailsToParse(file) ==
    /\ file.exists
    /\ \/ ReadRaises(file)
       \/ /\ ~IsText(file)
          /\ \E i \in 1..Len(file.data.messages) : ParseRaises(file.data.messages[i])

\* C20: the constructor of a tier whose file fails to parse does not raise;
\* the tier starts empty and the file is renamed to <path>.bad, where it
\* stays as it was through the later saves of the tier.
C20_UnparsableFileIsQuarantined ==
    rd.restarted /\ FailsToParse(rd.found) =>
        /\ rd.pc # "raised"
        /\ rd.bad = rd.found
        /\ rd.fresh => Tier = <<>>

\* What the code does for the files that cannot be read as JSON text.
UnreadableFileIsQuarantined ==
    rd.restarted /\ rd.found.exists /\ ReadRaises(rd.found) =>
        /\ rd.pc # "raised"
        /\ rd.bad = rd.found
        /\ rd.fresh => Tier = <<>>

UnreadableFileSurvivedASave ==
    /\ rd.restarted /\ rd.found.exists /\ ReadRaises(rd.found)
    /\ rd.saved
    /\ disk["tier"].exists

\* ------------------------------------------------- SpecVar: Memory.set_var
\* In this specification a content is a string as the sequence of its
\* characters, over the characters that a placeholder token is made of.
Chars == {"<", "x", ">"}

Strings(n) == UNION {[1..k -> Chars] : k \in 0..n}

\* token = f"<{var}>"
Token(var) == <<"<">> \o var \o <<">">>

\* str.replace(token, value): the occurrences of the token, found from left
\* to right without overlap, are replaced by the value.
RECURSIVE StrReplace(_, _, _)
StrReplace(content, token, value) ==
    IF Len(content) < Len(token) THEN content
    ELSE IF SubSeq(content, 1, Len(token)) = token
    THEN value \o StrReplace(SubSeq(content, Len(token) + 1, Len(content)), token, value)
    ELSE <<Head(content)>> \o StrReplace(Tail(content), token, value)

\* token in content
Contains(content, token) == StrReplace(content, token, <<>>) # content

\* Mutant of SetVarSaves: set_var persists after every call.
SetVarSavesAlways(changed) == TRUE

\* Memory.set_var: `if changed:` guards the assignment and the save.
SetVarSaves(changed) == changed

\* Memory.set_var on the tier st: the messages whose content holds the token
\* are replaced by copies with the substituted content and the same role,
\* compressed content and timestamps; the others stay. Nothing else refers
\* to the messages of that tier, so the copy takes the place of the original
\* in the heap.
SetVar(h, st, var, value) ==
    LET token == Token(var)
        hit == {m \in Range(st.messages) :
                    StrReplace(h[m].content, token, value) # h[m].content}
    IN  [heap |-> [m \in 1..Len(h) |->
                     IF m \in hit
                     THEN [h[m] EXCEPT !.content = StrReplace(@, token, value)]
                     ELSE h[m]],
         changed |-> hit # {},
         saved |-> SetVarSaves(hit # {})]

NoVarCall == [op |-> "none", var |-> <<>>, value |-> <<>>, repeated |-> FALSE,
              before |-> <<>>, changed |-> FALSE, saved |-> FALSE]

InitVar ==
    /\ heap = <<>>
    /\ cfg = [t \in {"tier"} |-> MemoryInit({"system", "user"}, Unbounded, 1, FALSE)]
    /\ mem = [t \in {"tier"} |-> EmptyMemory]
    /\ disk = [t \in {"tier"} |-> NoFile]
    /\ writes = [t \in {"tier"} |-> 0]
    /\ last = NoVarCall
    /\ layers = <<>>
    /\ appended = <<>>
    /\ pre = mem
    /\ mainPc = "none"
    /\ passes = EmptyBag
    /\ notes = 0
    /\ fs = NoFs
    /\ saving = NoSave
    /\ sc = NoStream
    /\ clock = Started
    /\ rd = NoRender

\* The characters of the contents of the heap, and one for every message.
RECURSIVE TextSize(_)
TextSize(h) == IF h = <<>> THEN 0 ELSE 1 + Len(Head(h).content) + TextSize(Tail(h))

\* Memory.extend([message]) with a message that carries a compressed content
\* (Model._compress_working_memory attached it before the message was evicted
\* from the working tier).
VarAppend(content) ==
    /\ last.op = "none"
    /\ TextSize(heap) + 1 + Len(content) <= MaxText + 2
    /\ LET message == [Message("user", content) EXCEPT !.compressed_content = "short"]
           h == Append(heap, Stamp(message, clock))
           r == Extend(cfg, h, Now, "tier", <<Len(h)>>)
       IN  /\ heap' = h
           /\ mem' = r.mem
           /\ disk' = r.disk
           /\ writes' = r.writes
    /\ UNCHANGED <<cfg, last, layers, appended, pre, mainPc, passes, notes, fs, saving, sc,
                   clock, rd>>

\* Memory.set_var(var, value). The specification follows a run of appends, a
\* set_var call and the same call again: the tiers that other calls of
\* set_var would leave are among those that the appends build.
SetVarCall(var, value) ==
    LET r == SetVar(heap, mem["tier"], var, value)
    IN  /\ \/ last.op = "none"
           \/ last.op = "set_var" /\ ~last.repeated /\ last.var = var /\ last.value = value
        /\ TextSize(r.heap) <= MaxText + 2
        /\ heap' = r.heap
        /\ disk' = IF r.saved
                   THEN [disk EXCEPT !["tier"] = SaveToDisk(cfg["tier"], r.heap, mem["tier"])]
                   ELSE disk
        /\ last' = [op |-> "set_var", var |-> var, value |-> value,
                    repeated |-> last.op = "set_var" /\ last.var = var
                                    /\ last.value = value,
                    before |-> heap, changed |-> r.heap # heap, saved |-> r.saved]
        /\ UNCHANGED <<cfg, mem, writes, layers, appended, pre, mainPc, passes, notes,
                       fs, saving, sc, clock, rd>>

NextVar ==
    \/ \E content \in Strings(MaxText) : VarAppend(content)
    \/ \E value \in Strings(MaxValue) : SetVarCall(<<"x">>, value)

SpecVar == InitVar /\ [][NextVar]_vars

\* The second of two set_var calls with the same name and value has returned.
SecondCall == last.op = "set_var" /\ last.repeated

\* C21 as claimed: a second set_var call with the same name and value changes
\* no message content and writes nothing, whatever the contents, the name and
\* the value.
C21_SetVarIdempotent ==
    SecondCall => heap = last.before /\ ~last.saved

\* C21: a second set_var call with the same name and value changes no message
\* content and writes nothing exactly when the first call left no token in
\* the tier or the value is the token itself; when a token is left (the value
\* holds it, or the value and the text around it form it) the second call
\* substitutes again and persists again. Role, compressed content and
\* timestamps are kept in every case.
C21_SetVarIdempotentWithoutToken ==
    SecondCall =>
        LET left == /\ last.value # Token(last.var)
                    /\ \E m \in Range(mem["tier"].messages) :
                            Contains(last.before[m].content, Token(last.var))
        IN  /\ ~left => heap = last.before /\ ~last.saved
            /\ left => heap # last.before /\ last.saved
            /\ \A m \in 1..Len(heap) :
                  [heap[m] EXCEPT !.content = <<>>]
                      = [last.before[m] EXCEPT !.content = <<>>]
            /\ \A m \in 1..Len(heap) :
                  [heap[m] EXCEPT !.content = <<>>]
                      = [last.before[m] EXCEPT !.content = <<>>]

\* C21 witness: the first call substituted a token and persisted, the second
\* call found none and wrote nothing.
C21_Witness ==
    /\ SecondCall
    /\ ~last.saved
    /\ heap = last.before
    /\ last.value # <<>>
    /\ \E m \in Range(mem["tier"].messages) :
          /\ Contains(heap[m].content, last.value)
          /\ heap[m].compressed_content # None

\* ------------- SpecReplace: set_messages on a capacity-1 tier, by threads
\* The maintenance threads run without a lock and the methods of Memory are
\* plain Python: a thread can be preempted between any two statements. The
\* specification follows the threads that have reached
\* self.context.long_term_factual.set_messages([Message(...)]) or
\* self.context.model_goal.set_messages([Message(...)]) through the
\* statements of set_messages and _apply. A thread is a record in the bag
\* `passes`: pc is the statement it is about to execute, m its Message.
SingleSlotTiers == {"long_term_factual", "model_goal"}

InitReplace ==
    /\ heap = <<>>
    /\ \E t \in SingleSlotTiers : cfg = [u \in {t} |-> ContextCreate[t]]
    /\ mem = [t \in DOMAIN cfg |-> EmptyMemory]
    /\ disk = [t \in DOMAIN cfg |-> NoFile]
    /\ writes = [t \in DOMAIN cfg |-> 0]
    /\ last = NoCall
    /\ layers = <<>>
    /\ appended = <<>>
    /\ pre = mem
    /\ mainPc = "none"
    /\ passes = EmptyBag
    /\ notes = 0
    /\ fs = NoFs
    /\ saving = NoSave
    /\ sc = NoStream
    /\ clock = Started
    /\ rd = NoRender

TheTier == CHOOSE t \in DOMAIN cfg : TRUE

At(pc) == {r \in BagToSet(passes) : r.pc = pc}

Step(r, pc) == passes' = Replace(passes, r, [r EXCEPT !.pc = pc])

\* facts = self.nostream(...).strip() returned text: the thread creates the
\* Message and calls set_messages.
ReplaceCall ==
    /\ Len(heap) < MaxAppends
    /\ heap' = Append(heap, Message("memory", "short"))
    /\ passes' = passes (+) SetToBag({[pc |-> "clear", m |-> Len(heap) + 1]})
    /\ UNCHANGED <<cfg, mem, disk, writes, last, layers, appended, pre, mainPc, notes,
                   fs, saving, sc, clock, rd>>

\* set_messages: self._messages.clear()
ReplaceClear ==
    \E r \in At("clear") :
        /\ mem' = [mem EXCEPT ![TheTier].messages = <<>>]
        /\ Step(r, "stamp")
        /\ UNCHANGED <<heap, cfg, disk, writes, last, layers, appended, pre, mainPc,
                       notes, fs, saving, sc, clock, rd>>

\* _apply: the timestamps of the message, then _validate (the role "memory"
\* is allowed in both tiers).
ReplaceStamp ==
    \E r \in At("stamp") :
        /\ heap' = [heap EXCEPT ![r.m] = Stamp(@, clock)]
        /\ Step(r, IF Validate(cfg[TheTier], heap, r.m) THEN "test" ELSE "raised")
        /\ UNCHANGED <<cfg, mem, disk, writes, last, layers, appended, pre, mainPc,
                       notes, fs, saving, sc, clock, rd>>

\* _apply: if self._max_messages is not None and len(self._messages) >= self._max_messages
ReplaceTest ==
    \E r \in At("test") :
        LET c == cfg[TheTier]
        IN  /\ Step(r, IF c.max_messages # Unbounded
                            /\ Len(mem[TheTier].messages) >= c.max_messages
                       THEN "evict" ELSE "append")
            /\ UNCHANGED <<heap, cfg, mem, disk, writes, last, layers, appended, pre,
                           mainPc, notes, fs, saving, sc, clock, rd>>

\* _apply: one round of the while loop, or its exit.
ReplaceEvict ==
    \E r \in At("evict") :
        LET c == cfg[TheTier]
            ms == mem[TheTier].messages
        IN  /\ IF ms # <<>> /\ Len(ms) >= c.max_messages
               THEN /\ mem' = [mem EXCEPT ![TheTier].messages =
                                            Drop(ms, Max(1, c.drop_chunk_size))]
                    /\ UNCHANGED passes
               ELSE /\ Step(r, "append")
                    /\ UNCHANGED mem
            /\ UNCHANGED <<heap, cfg, disk, writes, last, layers, appended, pre, mainPc,
                           notes, fs, saving, sc, clock, rd>>

\* _apply: self._messages.append(message)
ReplaceAppend ==
    \E r \in At("append") :
        /\ mem' = [mem EXCEPT ![TheTier].messages = Append(@, r.m)]
        /\ Step(r, "save")
        /\ UNCHANGED <<heap, cfg, disk, writes, last, layers, appended, pre, mainPc,
                       notes, fs, saving, sc, clock, rd>>

\* set_messages: self._save_to_disk(), and the call returns.
ReplaceSave ==
    \E r \in At("save") :
        /\ disk' = [disk EXCEPT ![TheTier] = SaveToDisk(cfg[TheTier], heap, mem[TheTier])]
        /\ writes' = [writes EXCEPT ![TheTier] = @ + 1]
        /\ last' = [NoCall EXCEPT !.op = "set_messages", !.tier = TheTier,
                                  !.inserted = <<r.m>>, !.saved = TRUE]
        /\ Step(r, "returned")
        /\ UNCHANGED <<heap, cfg, mem, layers, appended, pre, mainPc, notes, fs, saving,
                       sc, clock, rd>>

NextReplace ==
    \/ ReplaceCall
    \/ ReplaceClear
    \/ ReplaceStamp
    \/ ReplaceTest
    \/ ReplaceEvict
    \/ ReplaceAppend
    \/ ReplaceSave

SpecReplace == InitReplace /\ [][NextReplace]_vars

\* No call of set_messages is under way.
Quiet == \A r \in BagToSet(passes) : r.pc = "returned"

\* C22: a capacity-1 tier holds at most one message in every reachable state,
\* and when a full replace has returned (and no other is under way) it holds
\* exactly the message that was written last.
C22_SingleSlotHoldsLatest ==
    /\ Len(mem[TheTier].messages) <= 1
    /\ Quiet /\ last.op = "set_messages" => mem[TheTier].messages = last.inserted

\* Where set_messages is one step (Spec), the capacity-1 tiers never hold two
\* messages.
SingleSlotWhenAtomic ==
    \A t \in {"system", "model_goal", "workspace", "long_term_factual"} :
        Len(mem[t].messages) <= 1

\* ------------------------------------------- claims on compressed content
HasCompressed(message) == message.compressed_content \notin {None, ""}

AllFinished ==
    /\ mainPc \in {"prompt", "exit"}
    /\ \A r \in BagToSet(passes) : r.pc = "done"

\* The file of tier t holds what the tier holds (a tier that was never saved
\* has no file and holds nothing).
FileIsCurrent(t) ==
    IF disk[t].exists
    THEN disk[t] = SaveToDisk(cfg[t], heap, mem[t])
    ELSE mem[t] = EmptyMemory

\* C30: once all appends and all maintenance passes have finished, the file of
\* every tier is the serialization of what the tier holds, the compressed
\* content of every message included, under every interleaving.
C30_FilesCurrentWhenFinished ==
    AllFinished => \A t \in TierNames : FileIsCurrent(t)

\* ------------------------------ Model: a working tier of three and more
\* Context.create with the working tier scaled to MaxCap messages, so that a
\* pass visits more than one message and two passes meet on the same one.
CompressCreate ==
    [ContextCreate EXCEPT !["working"] =
        MemoryInit(user_assistant, MaxCap, WorkingChunk, FALSE)]

\* _compress_working_memory from position idx of its snapshot downward, run
\* alone with an LLM that answers with text: the heap it leaves. A message is
\* compressed when the loop reaches it, which it does when no message
\* between it and the starting position is compressed already.
CompressFrom(h, msgs, idx) ==
    [m \in 1..Len(h) |->
        IF \E j \in 1..idx :
              msgs[j] = m /\ \A k \in j..idx : h[msgs[k]].compressed_content = None
        THEN [h[m] EXCEPT !.compressed_content =
                IF h[m].content = "short" THEN "short" ELSE Compressed(@, "text")]
        ELSE h[m]]

\* The n-th append of an earlier session, made in the state s under the
\* policy c: the user and the assistant take turns.
SessionAppend(c, s, n) ==
    LET h == Append(s.heap,
                Stamp(IF n % 2 = 1 THEN Message("user", "short")
                      ELSE Message("assistant", "long"), Started))
    IN  [heap |-> h, b |-> ContextAppend(c, h, s.b, CreateLayers, Len(h))]

\* if changed: self.context.working.save()
SessionSave(c, h, b) == [heap |-> h, b |-> Save(c, h, b, "working")]

\* The thread of an append of an earlier session, run to its end in the state
\* s before the next append, with an LLM that answers.
SessionPass(c, s) ==
    LET msgs == s.b.mem["working"].messages
    IN  IF FirstVisited(msgs) >= 1
           /\ s.heap[msgs[FirstVisited(msgs)]].compressed_content = None
        THEN SessionSave(c, CompressFrom(s.heap, msgs, FirstVisited(msgs)), s.b)
        ELSE s

\* The data directory as n appends of an earlier session left it under the
\* policy c. maintained: the thread of every append ran to its end before the
\* next append; else no thread did anything, as in EarlierSession.
RECURSIVE Session(_, _, _)
Session(c, n, maintained) ==
    IF n = 0
    THEN [heap |-> FreshHeap, b |-> Fresh]
    ELSE IF maintained
    THEN SessionPass(c, SessionAppend(c, Session(c, n - 1, maintained), n))
    ELSE SessionAppend(c, Session(c, n - 1, maintained), n)

\* chat.py main on the data directory of an earlier session that left the
\* working tier full or one message short of it. Such a session did not reach
\* the episodic tier, where its threads would have consolidated.
InitCompress ==
    \E n \in (MaxCap - 1)..MaxCap, maintained \in BOOLEAN :
        LET s == Session(CompressCreate, n, maintained)
        IN  /\ s.b.mem["long_term_episodic"].messages = <<>>
            /\ heap = s.heap
            /\ cfg = CompressCreate
            /\ mem = s.b.mem
            /\ disk = s.b.disk
            /\ writes = s.b.writes
            /\ last = NoCall
            /\ layers = CreateLayers
            /\ appended = [i \in 1..n |-> Len(FreshHeap) + i]
            /\ pre = mem
            /\ mainPc = "prompt"
            /\ passes = EmptyBag
            /\ notes = 0
            /\ fs = FsOf(s.b.disk["working"])
            /\ saving = NoSave
            /\ sc = NoStream
            /\ clock = Started
            /\ rd = NoRender

SpecCompress == InitCompress /\ [][Next]_vars

\* --------------------------------- claims on working-memory compression
\* The threads inside the loop of _compress_working_memory.
InLoop == {r \in BagToSet(passes) : r.step = "wm" /\ r.pc \in {"run", "llm"}}

\* The step is a step of the thread r, which becomes r2.
Moves(r, r2) == r2 # r /\ passes' = Replace(passes, r, r2)

\* The thread r is at the test of the loop and the loop ends there: no message
\* is left, or the message it has reached has a compressed content.
Stopping(r) ==
    /\ r.pc = "run"
    /\ (r.idx = 0 \/ heap[r.msgs[r.idx]].compressed_content # None)

\* C26: a thread in the compression loop visits the messages of its snapshot
\* from the most recent but one backward, one position at a time, and writes
\* to the message it is visiting only; at the first message that already has a
\* compressed content it leaves the loop without a write, so neither that
\* message nor an older one nor the most recent one is ever modified by it.
\* Nothing but such a visit modifies a stored message.
C26_StopsAtFirstCompressed ==
    [][/\ \A r \in InLoop : \A r2 \in BagToSet(passes') :
            Moves(r, r2) =>
                IF Stopping(r)
                THEN heap' = heap /\ r2.step # "wm"
                ELSE /\ r.idx >= 1 /\ r.idx <= Len(r.msgs) - 1
                     /\ \A m \in 1..Len(heap) :
                            m # r.msgs[r.idx] => heap'[m] = heap[m]
                     /\ heap'[r.msgs[r.idx]] =
                            [heap[r.msgs[r.idx]] EXCEPT !.compressed_content =
                                heap'[r.msgs[r.idx]].compressed_content]
                     /\ \/ r2.pc = "dead"
                        \/ /\ r2.step = "wm" /\ r2.msgs = r.msgs
                           /\ r2.idx = IF r2.pc = "llm" THEN r.idx ELSE r.idx - 1
       /\ (\E m \in 1..Len(heap) : heap'[m] # heap[m]) =>
            \E r \in InLoop : \E r2 \in BagToSet(passes') : Moves(r, r2)
      ]_vars

\* C26 witness: a thread has compressed a message and now stands, with older
\* messages of its snapshot unvisited, at one that has a compressed content.
C26_Witness ==
    \E r \in InLoop :
        /\ Stopping(r) /\ r.changed
        /\ r.idx >= 1 /\ r.idx < FirstVisited(r.msgs)

\* Whenever a message of the working tier has a compressed content, every
\* older message of the tier has one.
CompressedPrefix ==
    LET w == mem["working"].messages
    IN  \A i, j \in 1..Len(w) :
            i < j /\ heap[w[j]].compressed_content # None
                => heap[w[i]].compressed_content # None

\* C27: in every reachable state, a working-tier message with a compressed
\* content has only compressed messages before it.
C27_OlderMessagesCompressedFirst == CompressedPrefix

\* The same in the states where every append has returned and every thread
\* has run to its end.
CompressedPrefixAtRest == AllFinished => CompressedPrefix

\* ------------------------- Model.__init__: the system and the goal tier
\* In this specification a content is a sequence of words and characters;
\* the system prompt holds the token <MODEL_ID>.
DefaultGoalPlaceholder == <<"placeholder">>
SystemPrompt == <<"prompt">> \o Token(<<"MODEL_ID">>)
ModelId == <<"id">>

\* What the LLM returns as a goal statement.
GoalTexts == {<<"goal">>, <<"other">>}

GoalTiers == {"system", "model_goal"}

\* Mutant of SeedsGoal: the placeholder is appended at every start.
SeedsGoalAlways(messages) == TRUE

\* if not self.context.model_goal.messages():
SeedsGoal(messages) == messages = <<>>

\* No Model object has been constructed yet. (The counter of durable writes
\* is not kept in this specification.)
NoModel == [op |-> "none", had_goal |-> FALSE]

\* The data directory is empty and the program is not running.
InitGoal ==
    /\ heap = <<>>
    /\ cfg = [t \in GoalTiers |-> ContextCreate[t]]
    /\ mem = [t \in GoalTiers |-> EmptyMemory]
    /\ disk = [t \in GoalTiers |-> NoFile]
    /\ writes = [t \in GoalTiers |-> 0]
    /\ last = NoModel
    /\ layers = <<>>
    /\ appended = <<>>
    /\ pre = mem
    /\ mainPc = "down"
    /\ passes = EmptyBag
    /\ notes = 0
    /\ fs = NoFs
    /\ saving = NoSave
    /\ sc = NoStream
    /\ clock = Started
    /\ rd = NoRender

\* The references ms moved up by k places of the heap.
Shift(ms, k) == [i \in 1..Len(ms) |-> ms[i] + k]

\* Context.create(system_prompt=MODEL_INFO["system_prompt"]): the system tier
\* is loaded from its file and the prompt is appended to it; then the other
\* tiers are constructed, the goal tier from its file. A constructor that
\* raises ends the program.
GoalCreate ==
    /\ mainPc = "down"
    /\ LET s == LoadFromDisk(cfg["system"], disk["system"], clock)
           hs == Append(s.heap, Stamp(Message("system", SystemPrompt), clock))
           bs == [Now EXCEPT !.mem = [mem EXCEPT !["system"] = s.mem]]
           rs == Extend(cfg, hs, bs, "system", <<Len(hs)>>)
           g == LoadFromDisk(cfg["model_goal"], disk["model_goal"], clock)
       IN  IF s.raised \/ rs.raised
           THEN /\ mainPc' = "raised"
                /\ UNCHANGED <<heap, mem, disk>>
           ELSE /\ heap' = hs \o g.heap
                /\ mem' = [rs.mem EXCEPT !["model_goal"] =
                              [g.mem EXCEPT !.messages = Shift(@, Len(hs))]]
                /\ disk' = IF g.quarantined
                           THEN [rs.disk EXCEPT !["model_goal"] = NoFile]
                           ELSE rs.disk
                /\ mainPc' = IF g.raised THEN "raised" ELSE "created"
    /\ UNCHANGED <<cfg, writes, last, layers, appended, pre, passes, notes, fs, saving,
                   sc, clock, rd>>

\* Model(context): set_var("MODEL_ID", model_id) on the system tier, then the
\* placeholder goal is appended when the goal tier holds no message.
ModelInit ==
    /\ mainPc = "created"
    /\ LET v == SetVar(heap, mem["system"], <<"MODEL_ID">>, ModelId)
           b == IF v.saved THEN Save(cfg, v.heap, Now, "system") ELSE Now
           seeds == SeedsGoal(mem["model_goal"].messages)
           h == IF seeds
                THEN Append(v.heap,
                        Stamp(Message("memory", DefaultGoalPlaceholder), clock))
                ELSE v.heap
           r == IF seeds THEN Extend(cfg, h, b, "model_goal", <<Len(h)>>) ELSE b
       IN  /\ heap' = h
           /\ mem' = r.mem
           /\ disk' = r.disk
           /\ last' = [op |-> "Model", had_goal |-> mem["model_goal"].messages # <<>>]
    /\ mainPc' = "prompt"
    /\ UNCHANGED <<cfg, writes, layers, appended, pre, passes, notes, fs, saving, sc,
                   clock, rd>>

\* _update_model_goal after nostream returned the text `goal`:
\* set_messages([Message(role="memory", content=goal)]).
GoalUpdate(goal) ==
    /\ mainPc = "prompt"
    /\ notes < MaxGoals
    /\ LET h == Append(heap, Stamp(Message("memory", goal), clock))
           b == SetMessages(cfg, h, Now, "model_goal", <<Len(h)>>)
       IN  /\ heap' = h
           /\ mem' = b.mem
           /\ disk' = b.disk
    /\ notes' = notes + 1
    /\ UNCHANGED <<cfg, writes, last, layers, appended, pre, mainPc, passes, fs, saving,
                   sc, clock, rd>>

\* The program ends: its objects are gone, the files stay.
GoalExit ==
    /\ mainPc = "prompt"
    /\ mainPc' = "down"
    /\ heap' = <<>>
    /\ mem' = [t \in GoalTiers |-> EmptyMemory]
    /\ notes' = 0
    /\ last' = NoModel
    /\ UNCHANGED <<cfg, disk, writes, layers, appended, pre, passes, fs, saving, sc,
                   clock, rd>>

\* Between two runs the goal file is removed or rewritten by something else.
GoalFileChange(file) ==
    /\ mainPc = "down"
    /\ disk["model_goal"].exists
    /\ ~IsText(disk["model_goal"])
    /\ disk' = [disk EXCEPT !["model_goal"] = file]
    /\ UNCHANGED <<heap, cfg, mem, writes, last, layers, appended, pre, mainPc, passes,
                   notes, fs, saving, sc, clock, rd>>

NextGoal ==
    \/ GoalCreate
    \/ ModelInit
    \/ \E goal \in GoalTexts : GoalUpdate(goal)
    \/ GoalExit
    \/ \E text \in Texts : GoalFileChange(TextFile(text))
    \/ GoalFileChange(NoFile)
    \/ Tick

SpecGoal == InitGoal /\ [][NextGoal]_vars

\* C24: constructing the orchestrator on an empty goal tier leaves the tier
\* with one message, of role memory, whose content is the default placeholder
\* goal; on a goal tier that holds a goal it leaves the tier, the goal and
\* the goal file as they are.
C24_GoalSeededWhenEmpty ==
    [][mainPc = "created" /\ mainPc' = "prompt" =>
            LET before == mem["model_goal"].messages
                after == mem'["model_goal"].messages
            IN  IF before = <<>>
                THEN /\ Len(after) = 1
                     /\ heap'[after[1]].role = "memory"
                     /\ heap'[after[1]].content = DefaultGoalPlaceholder
                ELSE /\ after = before
                     /\ \A i \in 1..Len(before) : heap'[before[i]] = heap[before[i]]
                     /\ disk'["model_goal"] = disk["model_goal"]
      ]_vars

\* C24 witness: the orchestrator has been constructed on a goal tier that
\* held a goal of an earlier run, and the tier holds that goal.
C24_Witness ==
    /\ mainPc = "prompt" /\ last.op = "Model" /\ last.had_goal /\ notes = 0
    /\ Len(mem["model_goal"].messages) = 1
    /\ heap[mem["model_goal"].messages[1]].content \in GoalTexts

\* ------------------------------------- claims on episodic consolidation
\* The step is the return of the LLM call of an episodic consolidation with a
\* summary, to a thread whose snapshot of the episodic tier is what the tier
\* holds: nothing has changed the tier since the consolidation began.
ConsolidatesAlone(r) ==
    /\ r.pc = "llm" /\ r.step = "epi"
    /\ notes' = notes + 1
    /\ \E r2 \in BagToSet(passes') : Moves(r, r2)
    /\ r.lt = mem["long_term_episodic"].messages

\* C25: after an episodic consolidation whose LLM call returned a summary and
\* that no other unit interleaved with, the visible list of the episodic tier
\* is its prior memory-role entries in their order followed by one new
\* memory-role summary, no other message is visible, and the shadow list is
\* its prior contents followed by the consumed raw messages in their order.
C25_ConsolidationResult ==
    [][\A r \in BagToSet(passes) :
          ConsolidatesAlone(r) =>
            LET prior == mem["long_term_episodic"]
                after == mem'["long_term_episodic"]
                kept == SelectSeq2(heap, prior.messages, TRUE)
                raw == SelectSeq2(heap, prior.messages, FALSE)
            IN  /\ Len(after.messages) = Len(kept) + 1
                /\ SubSeq(after.messages, 1, Len(kept)) = kept
                /\ after.messages[Len(kept) + 1] \notin
                        Range(prior.messages) \cup Range(prior.uncompressed)
                /\ \A i \in 1..Len(after.messages) :
                        Obj(heap', after.messages[i]).role = "memory"
                /\ after.uncompressed = prior.uncompressed \o raw
      ]_vars

\* C25 witness: a second consolidation has run on an episodic tier that held
\* the summary of the first and a raw message; both summaries are visible and
\* both raw messages are in the shadow list.
C25_Witness ==
    /\ notes = 2
    /\ mem["long_term_episodic"].messages = <<NoteRef("epi", 1), NoteRef("epi", 2)>>
    /\ Len(mem["long_term_episodic"].uncompressed) = 2

\* ------------------------------------------- claims on persistence writes
\* C28: every extend call on a tier with a file that returns replaces the
\* file once, whatever the size of the batch and the number of evictions,
\* and the file then is the serialization of the tier as the whole batch
\* left it. (A call that raises on a role writes nothing.)
C28_OneWritePerExtend ==
    [][IF last'.raised
       THEN writes' = writes /\ disk' = disk
       ELSE /\ writes'["tier"] = writes["tier"] + 1
            /\ disk'["tier"] = SaveToDisk(cfg["tier"], heap', mem'["tier"])
      ]_vars

\* C28 witness: an extend call with a batch of two messages that evicted
\* messages has returned.
C28_Witness ==
    /\ last.op = "extend" /\ ~last.raised
    /\ Len(last.inserted) = 2
    /\ Len(last.dropped) >= 1
    /\ writes["tier"] >= 1

\* ------------------------------------------ claims on the reasoning flag
\* The escape sequences that mark a switch of mode.
Switches == SelectSeq(sc.marks, LAMBDA m : m \in {"enter", "leave"})

\* The loop has consumed the line it was at.
ConsumesLine == sc.pc = "loop" /\ sc'.pc = "loop" /\ sc'.idx = sc.idx + 1

\* C29: the flag is false when the loop begins. A line that brings a content
\* delta clears it, with a leave marker when it was set; a line that brings a
\* reasoning delta sets it, with an enter marker when it was not set (also
\* when the content delta of the same chunk has just cleared it); no other
\* line and no other step changes the flag or prints a marker. The markers
\* alternate, the first is an enter marker, and the flag is set exactly when
\* the last marker is an enter marker.
C29_ReasoningFlagAlternates ==
    /\ [](/\ sc.pc = "call" => ~sc.reasoning /\ sc.marks = <<>>
          /\ \A i \in 1..Len(Switches) :
                Switches[i] = IF i % 2 = 1 THEN "enter" ELSE "leave"
          /\ sc.reasoning <=> Len(Switches) % 2 = 1)
    /\ [][IF ConsumesLine
          THEN LET line == sc.lines[sc.idx]
                   hasContent == line.content # <<>>
                   left == IF hasContent /\ sc.reasoning THEN <<"leave">> ELSE <<>>
                   entered == IF line.reasoning /\ (hasContent \/ ~sc.reasoning)
                              THEN <<"enter">> ELSE <<>>
               IN  /\ sc'.reasoning = IF line.reasoning THEN TRUE
                                      ELSE IF hasContent THEN FALSE
                                      ELSE sc.reasoning
                   /\ sc'.marks = sc.marks \o left \o entered
          ELSE /\ sc'.reasoning = sc.reasoning
               /\ SelectSeq(sc'.marks, LAMBDA m : m \in {"enter", "leave"}) = Switches
         ]_vars

\* C29 witness: the stream went into reasoning mode, left it and entered it
\* again.
C29_Witness ==
    /\ Switches = <<"enter", "leave", "enter">>
    /\ sc.reasoning

\* ------------------------------- claims on concurrent consolidation
\* The summaries in the visible list of the episodic tier.
Summaries(b) ==
    {m \in Range(b["long_term_episodic"].messages) : Obj(heap, m).role = "memory"}

\* C31: a summary that is in the visible list of the episodic tier is in it
\* after every step, also when two maintenance threads consolidate at the
\* same time.
C31_SummariesStay ==
    [][Summaries(mem) \subseteq Range(mem'["long_term_episodic"].messages)]_vars

\* C32: no message is twice in the shadow list of the episodic tier, also
\* when two maintenance threads overlap and after a step with an empty
\* answer.
C32_ShadowListHasNoDuplicates ==
    LET u == mem["long_term_episodic"].uncompressed
    IN  \A i, j \in 1..Len(u) : i # j => u[i] # u[j]

\* ------------------------------------- a tier constructed from any file
\* The items of a parseable file: what _serialize writes for a message, with
\* a timestamp or, as a file written by hand or by an older version, without.
FileItems ==
    {[role |-> "user", content |-> "long", compressed_content |-> None,
      timestamp |-> <<Started>>],
     [role |-> "memory", content |-> "long", compressed_content |-> None,
      timestamp |-> <<>>]}

ItemLists(n) == UNION {[1..k -> FileItems] : k \in 0..n}

\* The parseable files: a plain array of items, or the wrapper of a long-term
\* tier with its two lists.
ParseableFiles ==
    {ListFile(ms) : ms \in ItemLists(MaxLoaded)}
        \cup {[exists |-> TRUE,
               data |-> [wrapped |-> TRUE, messages |-> ms, uncompressed |-> us]] :
                    ms \in ItemLists(MaxLoaded), us \in ItemLists(1)}

\* The program is not running; the file of the tier is any parseable file and
\* the tier is about to be constructed under one of the policies of
\* Context.create, with a capacity of 1 (as long_term_factual) and more.
InitLoad ==
    /\ heap = <<>>
    /\ \E p \in ReloadPolicies, C \in 1..MaxCap :
          cfg = [t \in {"tier"} |->
                    MemoryInit({"user", "memory"}, C, 1, p.is_long_term_memory)
                        @@ RenderInit(p.is_working_memory, p.is_short_term_memory,
                                      p.render_prefix)]
    /\ mem = [t \in {"tier"} |-> EmptyMemory]
    /\ \E file \in ParseableFiles : disk = [t \in {"tier"} |-> file]
    /\ writes = [t \in {"tier"} |-> 0]
    /\ last = NoCall
    /\ layers = <<>>
    /\ appended = <<>>
    /\ pre = mem
    /\ mainPc = "none"
    /\ passes = EmptyBag
    /\ notes = 0
    /\ fs = NoFs
    /\ saving = NoSave
    /\ sc = NoStream
    /\ clock = Started
    /\ rd = [pc |-> "down", before |-> <<>>, intact |-> FALSE, found |-> NoFile,
             bad |-> NoFile, fresh |-> TRUE, saved |-> FALSE, restarted |-> FALSE]

NextLoad ==
    \/ Construct
    \/ \E role \in RenderRoles, cc \in {None, "short"} : ReloadExtend(role, cc)
    \/ Tick

SpecLoad == InitLoad /\ [][NextLoad]_vars

\* The constructor has returned and nothing has been called since.
JustConstructed == rd.pc = "live" /\ rd.restarted /\ rd.fresh

\* C33: immediately after its construction from a parseable file, of either
\* format, a tier holds at most max_messages messages.
C33_LoadedWithinCapacity ==
    JustConstructed => Len(mem["tier"].messages) <= cfg["tier"].max_messages

\* The same for the files that are a plain array.
PlainArrayLoadedWithinCapacity ==
    JustConstructed /\ ~rd.found.data.wrapped
        => Len(mem["tier"].messages) <= cfg["tier"].max_messages

====
